---- MODULE Spec2Model ----
(***************************************************************************)
(* A model of the dashboard's persistence store (Storage), its container   *)
(* registry (ContainerManager), the startup migration, the drag and drop   *)
(* of containers (DragDrop), the settings (Settings), the container dialog *)
(* (Modal) and the update loop, in the two builds of the program that      *)
(* carry the current "containers" schema:                                  *)
(*   ver = 1   the column-grid build with the nested `data` payload        *)
(*   ver = 2   the single-grid build with flat records and reorder          *)
(*                                                                         *)
(* JavaScript values are modelled as follows.  An object is a function     *)
(* from its keys to its values; a key that the object does not have reads  *)
(* as undefined.  A container id `prefix_suffix` is the pair               *)
(* <<prefix, suffix>>.  The text kept by localStorage under a key is an    *)
(* Item: absent, text JSON.parse rejects, JSON of something that is not an *)
(* array, or JSON of an array.                                             *)
(***************************************************************************)
EXTENDS Integers, Sequences, FiniteSets, TLC

VARIABLES
    ver,          \* the build that runs (fixed by Init)
    chrome,       \* TRUE iff chrome.storage.sync exists (fixed by Init)
    local,        \* localStorage: key -> Item or string
    sync,         \* contents of chrome.storage.sync: key -> Item or string
    clock,        \* Date.now(); every generated id takes a fresh value of it
    call,         \* the last Storage call that ran to completion: its argument, what
                  \* the environment did, how it settled and what it returned; `got`
                  \* is what its get gave, `before` the stores when its set was called
    live,         \* ContainerManager.containers: the Map, in insertion order
    columnCount,  \* ContainerManager.columnCount
    loaded,       \* App.init has run loadContainers
    micro,        \* promise continuations ready to run (microtask queue)
    macro,        \* chrome.storage callbacks not yet delivered (FIFO)
    hist,         \* history of the run, kept for the properties only
    draggedContainerId,  \* DragDrop.draggedContainerId, the id of DragDrop.draggedElement
    marks,        \* element id -> its classes among drop-before and drop-after
    dom,          \* the children of each column (of the grid in build 2), in order
    fullscreen,   \* the ids of the elements that have the class fullscreen
    session,      \* the browser's drag: "none", "own" (from a container), "dropped"
    settingsStore,  \* what the two stores hold under the settings key
    current,      \* Settings.current (no field before Settings.init)
    defaults,     \* Settings.defaults
    sharesFont,   \* current.fontSize is the very object defaults.fontSize
    modal,        \* Modal: mode, editingContainerId, containerType, the inputs
    running,      \* ContainerManager.running
    lastSecond,   \* ContainerManager.lastSecond
    frames,       \* callbacks of requestAnimationFrame not yet run
    shown         \* the second tick pushed last, and the containers it pushed it to

storeVars == <<local, sync, clock>>
regVars   == <<live, columnCount, loaded>>
queueVars == <<micro, macro>>
dragVars  == <<draggedContainerId, marks, dom, fullscreen, session>>
tickVars  == <<running, lastSecond, frames, shown>>
settingsVars == <<settingsStore, current, defaults, sharesFont>>
pageVars  == <<settingsStore, current, defaults, sharesFont, modal,
               running, lastSecond, frames, shown>>
vars == <<ver, chrome, local, sync, clock, call, live, columnCount, loaded,
          micro, macro, hist, draggedContainerId, marks, dom, fullscreen, session,
          settingsStore, current, defaults, sharesFont, modal,
          running, lastSecond, frames, shown>>

----------------------------------------------------------------------------
(* Bounds of the model *)

MaxClock == 4      \* last value of the clock
MaxCalls == 1      \* Storage calls made one after the other in SpecStore
MaxSteps == 2      \* operations made one after the other in SpecLife

----------------------------------------------------------------------------
(* JavaScript values *)

Undef == "undefined"
Null == "null"
EmptyObj == [k \in {} |-> Undef]

Falsy(s) == s \in {Undef, Null, ""}

\* the keys whose values are strings (the only ones that can hold undefined here)
StrKeys == {"type", "title", "description", "startDate", "targetDate",
            "imageUrl", "text", "content", "fit"}

Has(o, k) == k \in DOMAIN o

\* o[k] for a string-valued key
GetStr(o, k) == IF Has(o, k) THEN o[k] ELSE Undef

\* o[k] || def for a string-valued key
OrStr(o, k, def) == IF Has(o, k) /\ ~Falsy(o[k]) THEN o[k] ELSE def

\* o[k] || def for a number-valued key
OrNum(o, k, def) == IF Has(o, k) /\ o[k] # 0 THEN o[k] ELSE def

\* a spread in which the fields of the first object win
Spread_BaseWins(a, b) == [k \in DOMAIN a \cup DOMAIN b |-> IF k \in DOMAIN a THEN a[k] ELSE b[k]]

\* { ...a, ...b }
Spread(a, b) == [k \in DOMAIN a \cup DOMAIN b |-> IF k \in DOMAIN b THEN b[k] ELSE a[k]]

\* a findIndex that answers the last index whenever some record has the id
FindIndex_Last(list, id) ==
    IF \E i \in 1..Len(list) : list[i].id = id THEN Len(list) ELSE 0

\* array.findIndex(c => c.id === id), 0 for -1
FindIndex(list, id) ==
    IF \E i \in 1..Len(list) : list[i].id = id
    THEN CHOOSE i \in 1..Len(list) :
            /\ list[i].id = id
            /\ \A j \in 1..(i - 1) : list[j].id # id
    ELSE 0

\* array.filter(c => c.id !== id)
RECURSIVE FilterOut(_, _)
FilterOut(list, id) ==
    IF list = <<>> THEN <<>>
    ELSE IF Head(list).id = id THEN FilterOut(Tail(list), id)
         ELSE <<Head(list)>> \o FilterOut(Tail(list), id)

Ids(list) == {list[i].id : i \in 1..Len(list)}

----------------------------------------------------------------------------
(* JSON and the two stores *)

NoItem == [kind |-> "none", val |-> <<>>]
Corrupt == [kind |-> "corrupt", val |-> <<>>]
NotArray == [kind |-> "notarray", val |-> <<>>]
Arr(list) == [kind |-> "array", val |-> list]

\* JSON text of one object: keys holding undefined are left out
RECURSIVE DropUndef(_)
DropUndef(o) ==
    [k \in {j \in DOMAIN o : ~(j \in StrKeys /\ o[j] = Undef)} |->
        IF k = "data" THEN DropUndef(o[k]) ELSE o[k]]

\* JSON.stringify(containers), as the Item that JSON.parse gives back
JSONStringify(list) == Arr([i \in 1..Len(list) |-> DropUndef(list[i])])

KEY_CONTAINERS == "speedrun_containers"
KEY_SETTINGS == "speedrun_settings"
KEY_WIDGETS == "speedrun_widgets"
KEY_TIMERS == "speedrun_timers"
LEGACY_target == "speedrun_target_date"
LEGACY_start == "speedrun_start_date"
LEGACY_title == "speedrun_title"
LEGACY_description == "speedrun_description"

ArrayKeys == {KEY_CONTAINERS, KEY_WIDGETS, KEY_TIMERS}
SingleKeys == {LEGACY_target, LEGACY_start, LEGACY_title, LEGACY_description}

\* Object.values(this.LEGACY_KEYS): build 1 lists the timers key among them
LEGACY_KEYS == IF ver = 1 THEN SingleKeys \cup {KEY_TIMERS} ELSE SingleKeys

\* a store with nothing in it
EmptyStore == [k \in ArrayKeys \cup SingleKeys |-> IF k \in ArrayKeys THEN NoItem ELSE Null]

\* removeItem / remove for a set of keys
RemoveKeys(store, keys) ==
    [k \in DOMAIN store |->
        IF k \in keys THEN (IF k \in ArrayKeys THEN NoItem ELSE Null) ELSE store[k]]

GetModes == {"ok", "lastError", "throws"}
SetModes == {"ok", "lastError", "throws"}

World == [local |-> local, sync |-> sync]

\* what an operation did about legacy data: the keys it read, the keys whose
\* data it turned into containers, those of them for which the durable write
\* of the migrated list failed, and whether it returned containers made from
\* legacy data.  A key is named with its store: <<"local", k>> or <<"sync", k>>.
NoRep == [read |-> {}, consumed |-> {}, unsaved |-> {}, made |-> FALSE]
JoinRep(a, b) ==
    [read |-> a.read \cup b.read, consumed |-> a.consumed \cup b.consumed,
     unsaved |-> a.unsaved \cup b.unsaved, made |-> a.made \/ b.made]

----------------------------------------------------------------------------
(* Storage *)

\* a migration that gives every container the empty title
MigrateTimer_Untitled(timer) ==
    [id |-> IF timer.id[1] = "timer" THEN <<"container", timer.id[2]>> ELSE timer.id,
     type |-> "countdown",
     title |-> "",
     description |-> OrStr(timer, "description", ""),
     height |-> OrNum(timer, "height", 2),
     column |-> IF Has(timer, "column") THEN timer.column ELSE 0,
     createdAt |-> OrNum(timer, "createdAt", clock),
     data |-> [startDate |-> GetStr(timer, "startDate"),
               targetDate |-> GetStr(timer, "targetDate")]]

\* build 1: the body of timers.map in migrateTimersToContainers
MigrateTimer(timer) ==
    [id |-> IF timer.id[1] = "timer" THEN <<"container", timer.id[2]>> ELSE timer.id,
     type |-> "countdown",
     title |-> OrStr(timer, "title", ""),
     description |-> OrStr(timer, "description", ""),
     height |-> OrNum(timer, "height", 2),
     column |-> IF Has(timer, "column") THEN timer.column ELSE 0,
     createdAt |-> OrNum(timer, "createdAt", clock),
     data |-> [startDate |-> GetStr(timer, "startDate"),
               targetDate |-> GetStr(timer, "targetDate")]]

\* build 1: Storage.migrateTimersToContainers(timers)
MigrateTimersToContainers(timers) == [i \in 1..Len(timers) |-> MigrateTimer(timers[i])]

\* timer.id.replace throws a TypeError for a timer that has no id
MigrateThrows(timers) == \E i \in 1..Len(timers) : ~Has(timers[i], "id")

\* a set that writes the synced store before it tries the durable local one
StorageSet_SyncFirst(w, containers, lfail, smode) ==
    LET w0 == IF chrome /\ smode = "ok"
              THEN [w EXCEPT !.sync[KEY_CONTAINERS] = JSONStringify(containers)]
              ELSE w
    IN IF lfail
       THEN [w |-> w0, status |-> "rejected", cb |-> FALSE]
       ELSE [w |-> [w0 EXCEPT !.local[KEY_CONTAINERS] = JSONStringify(containers)],
             status |-> IF chrome /\ smode = "throws" THEN "rejected" ELSE "ok",
             cb |-> chrome /\ smode # "throws"]

\* Storage.set(containers) in world w.  lfail: localStorage.setItem throws;
\* smode: what chrome.storage.sync.set does.  status is how the promise
\* settles; cb tells that it settles only when the sync callback arrives.
StorageSet(w, containers, lfail, smode) ==
    IF lfail
    THEN [w |-> w, status |-> "rejected", cb |-> FALSE]
    ELSE LET w1 == [w EXCEPT !.local[KEY_CONTAINERS] = JSONStringify(containers)] IN
         IF ~chrome
         THEN [w |-> w1, status |-> "ok", cb |-> FALSE]
         ELSE IF smode = "throws"
              \* the executor throws: the promise that set returns is rejected
              THEN [w |-> w1, status |-> "rejected", cb |-> FALSE]
              ELSE [w |-> IF smode = "ok"
                          THEN [w1 EXCEPT !.sync[KEY_CONTAINERS] = JSONStringify(containers)]
                          ELSE w1,
                    status |-> "ok", cb |-> TRUE]

\* a getFromLocalStorage that migrates the legacy timers on every read, adds
\* them to the list it has and keeps the legacy key
GetFromLocalStorage_Remigrating(w, lfail, smode) ==
    IF ver = 1 /\ w.local[KEY_TIMERS].kind = "array" /\ ~MigrateThrows(w.local[KEY_TIMERS].val)
    THEN [w |-> StorageSet(w, (IF w.local[KEY_CONTAINERS].kind = "array"
                                THEN w.local[KEY_CONTAINERS].val ELSE <<>>)
                               \o MigrateTimersToContainers(w.local[KEY_TIMERS].val),
                           lfail, smode).w,
          containers |-> (IF w.local[KEY_CONTAINERS].kind = "array"
                          THEN w.local[KEY_CONTAINERS].val ELSE <<>>)
                         \o MigrateTimersToContainers(w.local[KEY_TIMERS].val),
          rep |-> [read |-> {<<"local", KEY_TIMERS>>}, consumed |-> {<<"local", KEY_TIMERS>>},
                   unsaved |-> {}, made |-> TRUE]]
    ELSE [w |-> w,
          containers |-> IF w.local[KEY_CONTAINERS].kind = "array"
                         THEN w.local[KEY_CONTAINERS].val ELSE <<>>,
          rep |-> NoRep]

\* Storage.getFromLocalStorage() in world w; lfail and smode are for the
\* set that the legacy-timers branch of build 1 starts and does not await
GetFromLocalStorage(w, lfail, smode) ==
    IF w.local[KEY_CONTAINERS].kind = "array"
    THEN [w |-> w, containers |-> w.local[KEY_CONTAINERS].val, rep |-> NoRep]
    ELSE IF ver # 1
         THEN [w |-> w, containers |-> <<>>, rep |-> NoRep]
         ELSE IF /\ w.local[KEY_TIMERS].kind = "array"
                 /\ ~MigrateThrows(w.local[KEY_TIMERS].val)
              THEN LET containers == MigrateTimersToContainers(w.local[KEY_TIMERS].val)
                       w1 == StorageSet(w, containers, lfail, smode).w
                   IN [w |-> [w1 EXCEPT !.local = RemoveKeys(w1.local, {KEY_TIMERS})],
                       containers |-> containers,
                       rep |-> [read |-> {<<"local", KEY_TIMERS>>},
                                consumed |-> {<<"local", KEY_TIMERS>>},
                                unsaved |-> IF lfail THEN {<<"local", KEY_TIMERS>>} ELSE {},
                                made |-> containers # <<>>]]
              ELSE [w |-> w, containers |-> <<>>,
                    rep |-> [NoRep EXCEPT !.read = {<<"local", KEY_TIMERS>>}]]

\* a get that reads the durable local store and never asks the synced one
StorageGet_LocalOnly(w, gmode, lfail, smode) ==
    GetFromLocalStorage(w, lfail, smode) @@ [status |-> "ok"]

\* Storage.get() in world w.  gmode: what chrome.storage.sync.get does.
StorageGet(w, gmode, lfail, smode) ==
    IF ~chrome \/ gmode = "lastError"
    THEN GetFromLocalStorage(w, lfail, smode) @@ [status |-> "ok"]
    ELSE IF gmode = "throws"
         \* the executor throws: the promise that get returns is rejected
         THEN [w |-> w, containers |-> <<>>, rep |-> NoRep, status |-> "rejected"]
         ELSE IF w.sync[KEY_CONTAINERS].kind = "array"
              THEN [w |-> w, containers |-> w.sync[KEY_CONTAINERS].val, rep |-> NoRep,
                    status |-> "ok"]
              ELSE GetFromLocalStorage(w, lfail, smode) @@ [status |-> "ok"]

\* the record that addContainer builds from its argument
NewContainer(d, id, now) ==
    IF ver = 1
    THEN [id |-> id,
          type |-> OrStr(d, "type", "countdown"),
          title |-> OrStr(d, "title", ""),
          description |-> OrStr(d, "description", ""),
          height |-> OrNum(d, "height", 2),
          column |-> IF Has(d, "column") THEN d.column ELSE 0,
          createdAt |-> now,
          data |-> IF Has(d, "data") THEN d.data ELSE EmptyObj]
    ELSE Spread([id |-> id,
                 type |-> OrStr(d, "type", "countdown"),
                 title |-> OrStr(d, "title", ""),
                 description |-> OrStr(d, "description", ""),
                 height |-> OrNum(d, "height", 2),
                 createdAt |-> now],
                CASE OrStr(d, "type", "countdown") = "countdown" ->
                        [startDate |-> GetStr(d, "startDate"),
                         targetDate |-> GetStr(d, "targetDate")]
                  [] OrStr(d, "type", "countdown") = "image" ->
                        [imageUrl |-> OrStr(d, "imageUrl", "")]
                  [] OrStr(d, "type", "countdown") = "text" ->
                        [text |-> OrStr(d, "text", "")]
                  [] OTHER -> EmptyObj)

\* Storage.generateId()
GenerateId(now) == <<"container", now>>

\* build 2: orderedIds.map(id => containers.find(c => c.id === id)).filter(Boolean)
RECURSIVE Reordered(_, _)
\* a reorder that keeps the records that are named, in the order they are stored
Reordered_Stable(orderedIds, containers) ==
    SelectSeq(containers, LAMBDA c : \E i \in 1..Len(orderedIds) : orderedIds[i] = c.id)

Reordered(orderedIds, containers) ==
    IF orderedIds = <<>> THEN <<>>
    ELSE LET index == FindIndex(containers, Head(orderedIds)) IN
         (IF index # 0 THEN <<containers[index]>> ELSE <<>>)
            \o Reordered(Tail(orderedIds), containers)

\* the operations that write a list they were given, without reading first:
\* Storage.set, and Settings.importData which calls it with the file's list
WriteOnly == {"set", "importData"}

\* what a Storage operation does once get has given it `list`: the change to
\* the list, the set, and the value it returns.  found is FALSE when
\* updateContainer returns null; wrote tells that set was called.
StorageOp(w, op, arg, list, lfail, smode, now) ==
    CASE op = "addContainer" ->
            LET newContainer == NewContainer(arg.data, GenerateId(now), now)
                containers == Append(list, newContainer)
                s == StorageSet(w, containers, lfail, smode)
            IN [w |-> s.w, status |-> s.status, cb |-> s.cb, wrote |-> TRUE,
                found |-> TRUE, rec |-> newContainer, list |-> containers]
      [] op = "updateContainer" ->
            LET index == FindIndex(list, arg.id) IN
            IF index # 0
            THEN LET containers == [list EXCEPT ![index] = Spread(list[index], arg.data)]
                     s == StorageSet(w, containers, lfail, smode)
                 IN [w |-> s.w, status |-> s.status, cb |-> s.cb, wrote |-> TRUE,
                     found |-> TRUE, rec |-> containers[index], list |-> containers]
            ELSE [w |-> w, status |-> "ok", cb |-> FALSE, wrote |-> FALSE,
                  found |-> FALSE, rec |-> EmptyObj, list |-> list]
      [] op = "deleteContainer" ->
            LET filtered == FilterOut(list, arg.id)
                s == StorageSet(w, filtered, lfail, smode)
            IN [w |-> s.w, status |-> s.status, cb |-> s.cb, wrote |-> TRUE,
                found |-> TRUE, rec |-> EmptyObj, list |-> filtered]
      [] op = "reorderContainers" ->
            LET reordered == Reordered(arg.list, list)
                s == StorageSet(w, reordered, lfail, smode)
            IN [w |-> s.w, status |-> s.status, cb |-> s.cb, wrote |-> TRUE,
                found |-> TRUE, rec |-> EmptyObj, list |-> reordered]
      [] op \in WriteOnly ->
            LET s == StorageSet(w, arg.list, lfail, smode)
            IN [w |-> s.w, status |-> s.status, cb |-> s.cb, wrote |-> TRUE,
                found |-> TRUE, rec |-> EmptyObj, list |-> arg.list]
      [] op = "get" ->
            [w |-> w, status |-> "ok", cb |-> FALSE, wrote |-> FALSE,
             found |-> TRUE, rec |-> EmptyObj, list |-> list]

----------------------------------------------------------------------------
(* Startup migration *)

\* what the environment does during one handler: the outcome of every
\* chrome.storage.sync.get, of every localStorage.setItem, of every
\* chrome.storage.sync.set and of chrome.storage.sync.remove in it
Env(gmode, lfail, smode, rmode) ==
    [gmode |-> gmode, lfail |-> lfail, smode |-> smode, rmode |-> rmode]

\* result[target] && result[start]
LegacyIn(store) == ~Falsy(store[LEGACY_target]) /\ ~Falsy(store[LEGACY_start])

\* the legacyData object read from a store
LegacyData(store) ==
    [targetDate |-> store[LEGACY_target],
     startDate |-> store[LEGACY_start],
     title |-> IF Falsy(store[LEGACY_title]) THEN "" ELSE store[LEGACY_title],
     description |-> IF Falsy(store[LEGACY_description]) THEN ""
                     ELSE store[LEGACY_description]]

\* the argument migrateFromLegacy gives to addContainer
LegacyDraft(legacyData) ==
    IF ver = 1
    THEN [type |-> "countdown", title |-> legacyData.title,
          description |-> legacyData.description,
          data |-> [startDate |-> legacyData.startDate,
                    targetDate |-> legacyData.targetDate]]
    ELSE Spread(legacyData, [type |-> "countdown"])

\* where migrateFromLegacy finds a single countdown: the synced store is
\* asked first (a throw of its get is caught here, the promise being awaited
\* inside the try), then localStorage
LegacySource(w, e) ==
    IF chrome /\ e.gmode = "ok" /\ LegacyIn(w.sync) THEN "sync"
    ELSE IF LegacyIn(w.local) THEN "local" ELSE "none"

\* the keys migrateFromLegacy reads when it finds the countdown in src
LegacyRead(e, src) ==
    (IF chrome /\ e.gmode = "ok" THEN {<<"sync", k>> : k \in SingleKeys} ELSE {})
    \cup (IF src = "sync" THEN {}
          ELSE {<<"local", LEGACY_target>>, <<"local", LEGACY_start>>})
    \cup (IF src = "local"
          THEN {<<"local", LEGACY_title>>, <<"local", LEGACY_description>>}
          ELSE {})

\* the cleanup of migrateFromLegacy: every legacy key leaves localStorage, and
\* the synced store when chrome.storage.sync.remove works
CleanLegacy(w, e) ==
    [local |-> RemoveKeys(w.local, LEGACY_KEYS),
     sync |-> IF chrome /\ e.rmode = "ok" THEN RemoveKeys(w.sync, LEGACY_KEYS) ELSE w.sync]

\* migrateFromLegacy from `await this.addContainer(...)` on: g is what the get
\* of addContainer gave, r what addContainer did
LegacyMigrated(w, e, src, g, r) ==
    LET rep0 == [NoRep EXCEPT !.read = LegacyRead(e, src)]
        consumed == {<<src, k>> : k \in SingleKeys}
    IN IF g.status = "rejected"
       THEN [w |-> w, status |-> "rejected", made |-> FALSE, rec |-> EmptyObj, rep |-> rep0]
       ELSE IF r.status = "rejected"
            THEN [w |-> r.w, status |-> "rejected", made |-> FALSE, rec |-> EmptyObj,
                  rep |-> JoinRep(g.rep,
                            [rep0 EXCEPT !.consumed = consumed,
                                         !.unsaved = IF e.lfail THEN consumed ELSE {}])]
            ELSE [w |-> CleanLegacy(r.w, e), status |-> "ok", made |-> TRUE, rec |-> r.rec,
                  rep |-> JoinRep(g.rep, [rep0 EXCEPT !.consumed = consumed, !.made = TRUE])]

\* the addContainer call of migrateFromLegacy, on the list g that its get gave
LegacyAdd(w, e, now, src, g) ==
    LegacyMigrated(w, e, src, g,
        StorageOp(g.w, "addContainer",
                  [id |-> <<"none", 0>>,
                   data |-> LegacyDraft(LegacyData(IF src = "sync" THEN w.sync ELSE w.local)),
                   list |-> <<>>],
                  g.containers, e.lfail, e.smode, now))

\* Storage.migrateFromLegacy() in world w.  rec is the container it returns
\* when made is TRUE.
MigrateFromLegacy(w, e, now) ==
    IF LegacySource(w, e) = "none"
    THEN [w |-> w, status |-> "ok", made |-> FALSE, rec |-> EmptyObj,
          rep |-> [NoRep EXCEPT !.read = LegacyRead(e, "none")]]
    ELSE LegacyAdd(w, e, now, LegacySource(w, e), StorageGet(w, e.gmode, e.lfail, e.smode))

\* build 2: the body of oldData.map in migrateTimersToContainers
MigrateItem(item) ==
    Spread(item, [id |-> IF item.id[1] \in {"timer", "widget"}
                         THEN <<"container", item.id[2]>> ELSE item.id,
                  type |-> OrStr(item, "type", "countdown")])

\* build 2: oldData.map(...)
MigrateItems(oldData) == [i \in 1..Len(oldData) |-> MigrateItem(oldData[i])]

\* a parsed value that is not null: an array (an empty one too) or an object
Truthy(item) == item.kind \in {"notarray", "array"}

\* build 2: the key that gives oldData: the first one holding a value among
\* local widgets, synced widgets, local timers, synced timers
OldDataSource(w, askable) ==
    IF Truthy(w.local[KEY_WIDGETS]) THEN <<"local", KEY_WIDGETS>>
    ELSE IF askable /\ Truthy(w.sync[KEY_WIDGETS]) THEN <<"sync", KEY_WIDGETS>>
    ELSE IF Truthy(w.local[KEY_TIMERS]) THEN <<"local", KEY_TIMERS>>
    ELSE IF askable /\ Truthy(w.sync[KEY_TIMERS]) THEN <<"sync", KEY_TIMERS>>
    ELSE <<"none", "">>

\* build 2: the keys read on the way to src
OldDataRead(src, askable) ==
    {<<"local", KEY_WIDGETS>>}
    \cup (IF src # <<"local", KEY_WIDGETS>> /\ askable THEN {<<"sync", KEY_WIDGETS>>} ELSE {})
    \cup (IF src[2] # KEY_WIDGETS THEN {<<"local", KEY_TIMERS>>} ELSE {})
    \cup (IF src[2] # KEY_WIDGETS /\ src # <<"local", KEY_TIMERS>> /\ askable
          THEN {<<"sync", KEY_TIMERS>>} ELSE {})

\* build 2: what src holds
OldData(w, src) ==
    IF src[1] = "local" THEN w.local[src[2]]
    ELSE IF src[1] = "sync" THEN w.sync[src[2]] ELSE NoItem

\* build 2: migrateTimersToContainers after `await this.set(migratedContainers)`:
\* s is what set did; the old keys are removed only when it resolved
TimersWritten(e, src, rep0, migratedContainers, s) ==
    IF s.status = "rejected"
    THEN [w |-> s.w, status |-> "rejected", made |-> FALSE, list |-> <<>>,
          rep |-> [rep0 EXCEPT !.consumed = {src},
                               !.unsaved = IF e.lfail THEN {src} ELSE {}]]
    ELSE [w |-> [local |-> RemoveKeys(s.w.local, {KEY_WIDGETS, KEY_TIMERS}),
                 sync |-> IF chrome /\ e.rmode = "ok"
                          THEN RemoveKeys(s.w.sync, {KEY_WIDGETS, KEY_TIMERS})
                          ELSE s.w.sync],
          status |-> "ok", made |-> TRUE, list |-> migratedContainers,
          rep |-> [rep0 EXCEPT !.consumed = {src}, !.made = TRUE]]

\* build 2: migrateTimersToContainers after its get: g is what get gave,
\* oldData what src holds
TimersFrom(w, e, g, src, oldData, rep0) ==
    IF g.status = "rejected"
    THEN [w |-> w, status |-> "rejected", made |-> FALSE, list |-> <<>>, rep |-> NoRep]
    ELSE IF Len(g.containers) > 0
    THEN [w |-> w, status |-> "ok", made |-> FALSE, list |-> <<>>, rep |-> NoRep]
    ELSE IF ~(oldData.kind = "array" /\ Len(oldData.val) > 0)
    THEN [w |-> w, status |-> "ok", made |-> FALSE, list |-> <<>>, rep |-> rep0]
    ELSE IF MigrateThrows(oldData.val)
    THEN [w |-> w, status |-> "rejected", made |-> FALSE, list |-> <<>>, rep |-> rep0]
    ELSE TimersWritten(e, src, rep0, MigrateItems(oldData.val),
                       StorageSet(w, MigrateItems(oldData.val), e.lfail, e.smode))

\* build 2: migrateTimersToContainers with oldData taken from src
TimersAt(w, e, src) ==
    TimersFrom(w, e, StorageGet(w, e.gmode, FALSE, "ok"), src, OldData(w, src),
               [NoRep EXCEPT !.read = OldDataRead(src, chrome /\ e.gmode = "ok")])

\* build 2: Storage.migrateTimersToContainers() in world w
MigrateTimersToContainers2(w, e) ==
    TimersAt(w, e, OldDataSource(w, chrome /\ e.gmode = "ok"))

\* loadContainers from `await Storage.migrateFromLegacy()` on: m is what it did
LoadMigrated(rep, m) ==
    [w |-> m.w, status |-> m.status, list |-> IF m.made THEN <<m.rec>> ELSE <<>>,
     rep |-> JoinRep(rep, m.rep), newId |-> m.made]

\* loadContainers from `await Storage.get()` on: g is what get gave; t is what
\* the timers migration of build 2 did before
LoadGot(t, g, e, now) ==
    IF g.status = "rejected"
    THEN [w |-> t.w, status |-> "rejected", list |-> <<>>, rep |-> t.rep, newId |-> FALSE]
    ELSE IF Len(g.containers) # 0
         THEN [w |-> g.w, status |-> "ok", list |-> g.containers,
               rep |-> JoinRep(t.rep, g.rep), newId |-> FALSE]
         ELSE LoadMigrated(JoinRep(t.rep, g.rep), MigrateFromLegacy(g.w, e, now))

\* build 2: loadContainers from `await Storage.migrateTimersToContainers()` on
LoadAfter(t, e, now) ==
    IF t.status = "rejected" \/ t.made
    THEN [w |-> t.w, status |-> t.status, list |-> t.list, rep |-> t.rep, newId |-> FALSE]
    ELSE LoadGot(t, StorageGet(t.w, e.gmode, e.lfail, e.smode), e, now)

\* ContainerManager.loadContainers() in world w, up to the createContainer
\* calls: list holds the records it creates instances for, in order
LoadContainers(w, e, now) ==
    LoadAfter(IF ver = 2 THEN MigrateTimersToContainers2(w, e)
              ELSE [w |-> w, status |-> "ok", made |-> FALSE, list |-> <<>>, rep |-> NoRep],
              e, now)

----------------------------------------------------------------------------
(* Inputs *)

NoId == <<"none", 0>>
Arg(id, data, list) == [id |-> id, data |-> data, list |-> list]
NoArg == Arg(NoId, EmptyObj, <<>>)

\* a stored record of build 1
Container(n, col) ==
    [id |-> <<"container", n>>, type |-> "countdown", title |-> "t", description |-> "",
     height |-> 2, column |-> col, createdAt |-> n,
     data |-> [startDate |-> "2024-01-01", targetDate |-> "2024-01-15"]]

\* a record of the prior "timers" schema
Timer(n) ==
    [id |-> <<"timer", n>>, title |-> "old", description |-> "",
     startDate |-> "2023-01-01", targetDate |-> "2023-06-01", createdAt |-> n]

\* arguments given to addContainer: build 1 nests the payload under `data`,
\* build 2 keeps it flat
Drafts ==
    IF ver = 1
    THEN {[type |-> "text", title |-> "note", data |-> [content |-> "x"]],
          [type |-> "countdown", title |-> "", description |-> "d", height |-> 4,
           column |-> 1, data |-> [startDate |-> "2024-01-01", targetDate |-> Undef]],
          EmptyObj}
    ELSE {[type |-> "text", title |-> "note", text |-> "x"],
          [title |-> "", description |-> "d", height |-> 4,
           startDate |-> "2024-01-01", targetDate |-> Undef]}

\* partial records given to updateContainer
Partials ==
    IF ver = 1
    THEN {[height |-> 7], [title |-> "new", data |-> [content |-> "y"]]}
    ELSE {[height |-> 7], [title |-> "new", text |-> "y"]}

\* ids a caller may name: those of the initial records (stale once deleted or
\* when the list is shorter)
CallIds == {<<"container", 1>>, <<"container", 2>>}

InitLists == {<<>>, <<Container(1, 1), Container(2, 1)>>}

\* the history at startup: no call made, no failure injected.  limit is the
\* number of calls the run may make; faultModel is "any" when the environment
\* may fail whenever it can, "once" when it fails at most once in the run,
\* "never" when it does not fail.
HistInit(limit, faultModel) ==
    [calls |-> 0, limit |-> limit, faults |-> 0, faultModel |-> faultModel,
     localWriteFailed |-> FALSE]

\* the environment may inject n more failures
MayFail(n) ==
    \/ hist.faultModel = "any"
    \/ n = 0
    \/ (hist.faultModel = "once" /\ n = 1 /\ hist.faults = 0)

\* the failures counted so far, after n more
Failed(n) == IF hist.faultModel = "any" THEN hist.faults ELSE hist.faults + n
\* DragDrop as constructed, and a page that shows no container yet
NoDrag ==
    /\ draggedContainerId = NoId
    /\ marks = <<>>
    /\ dom = <<>>
    /\ fullscreen = {}
    /\ session = "none"

\* Settings.defaults as the source writes it
Defaults ==
    [theme |-> "default", effect |-> "none",
     fontSize |-> [titles |-> "medium", metadata |-> "medium", countdown |-> "medium"],
     columns |-> 2]

\* what a store holds under the settings key: nothing, text that JSON.parse
\* rejects, or an object
NoSettings == [kind |-> "none", val |-> EmptyObj]
CorruptSettings == [kind |-> "corrupt", val |-> EmptyObj]
Stored(o) == [kind |-> "object", val |-> o]

\* the inputs of the container dialog
Inputs(title, startDate, targetDate, imageUrl, content) ==
    [title |-> title, description |-> "", startDate |-> startDate, targetDate |-> targetDate,
     showTodos |-> TRUE, imageUrl |-> imageUrl, fit |-> "cover",
     content |-> content, fontSize |-> "medium", alignment |-> "center"]

\* Modal as constructed, its dialog hidden and its inputs empty
ClosedModal ==
    [open |-> FALSE, mode |-> "create", editingContainerId |-> NoId,
     containerType |-> "countdown", inputs |-> Inputs("", "", "", "", "")]

\* nothing pushed by tick yet
NoShown == [second |-> -1, ids |-> {}]

\* Settings, Modal and the update loop as constructed, before App.init
NoPage ==
    /\ settingsStore = [local |-> NoSettings, sync |-> NoSettings]
    /\ current = EmptyObj
    /\ defaults = Defaults
    /\ sharesFont = FALSE
    /\ modal = ClosedModal
    /\ running = FALSE
    /\ lastSecond = -1
    /\ frames = 0
    /\ shown = NoShown

NoCall == [op |-> "none", arg |-> NoArg, gmode |-> "ok", smode |-> "ok", lfail |-> FALSE,
           status |-> "ok", found |-> TRUE, wrote |-> FALSE, rec |-> EmptyObj,
           list |-> <<>>, got |-> <<>>, rep |-> NoRep, quiet |-> TRUE,
           prev |-> [op |-> "none", made |-> FALSE],
           before |-> [local |-> EmptyStore, sync |-> EmptyStore]]

----------------------------------------------------------------------------
(* SpecStore: the Storage interface of build 1, one call at a time *)

\* what the environment may do during one Storage call: the outcome of
\* chrome.storage.sync.get, of localStorage.setItem, of chrome.storage.sync.set,
\* and of the set that a legacy-timers migration inside get starts
GetEnv(op) == IF chrome /\ op \notin WriteOnly THEN GetModes ELSE {"ok"}
SetEnv(lfail) == IF chrome /\ ~lfail THEN SetModes ELSE {"ok"}
MigratesTimers(w) ==
    /\ ver = 1
    /\ w.local[KEY_CONTAINERS].kind # "array"
    /\ w.local[KEY_TIMERS].kind = "array"
    /\ ~MigrateThrows(w.local[KEY_TIMERS].val)
MigEnv(w, op) ==
    IF op \notin WriteOnly /\ MigratesTimers(w)
    THEN {[lfail |-> f, smode |-> m] :
            f \in BOOLEAN, m \in IF chrome THEN {"ok", "lastError"} ELSE {"ok"}}
    ELSE {[lfail |-> FALSE, smode |-> "ok"]}

\* the failures among the outcomes of one get, one local write and one sync write
Faults(gmode, lfail, smode) ==
    (IF gmode # "ok" THEN 1 ELSE 0) + (IF lfail THEN 1 ELSE 0) + (IF smode # "ok" THEN 1 ELSE 0)

\* one Storage call run to completion: get, then the operation on what get gave
Call(op, arg) ==
    \E gmode \in GetEnv(op), lfail \in BOOLEAN, menv \in MigEnv(World, op) :
       \E smode \in SetEnv(lfail) :
        LET faults == Faults(gmode, lfail, smode) + Faults("ok", menv.lfail, menv.smode)
            g == StorageGet(World, gmode, menv.lfail, menv.smode)
            r == IF op \in WriteOnly
                 THEN StorageOp(World, op, arg, <<>>, lfail, smode, clock)
                 ELSE StorageOp(g.w, op, arg, g.containers, lfail, smode, clock)
            ok == op \in WriteOnly \/ g.status = "ok"
        IN /\ MayFail(faults)
           /\ hist' = [hist EXCEPT !.calls = @ + 1, !.faults = Failed(faults),
                                   !.localWriteFailed = @ \/ (ok /\ r.wrote /\ lfail)
                                                          \/ g.rep.unsaved # {}]
           /\ local' = IF ok THEN r.w.local ELSE local
           /\ sync' = IF ok THEN r.w.sync ELSE sync
           /\ clock' = IF op = "addContainer" /\ ok THEN clock + 1 ELSE clock
           /\ call' = [op |-> op, arg |-> arg, gmode |-> gmode,
                       smode |-> IF ok /\ r.wrote THEN smode ELSE "ok",
                       lfail |-> ok /\ r.wrote /\ lfail,
                       status |-> IF ok THEN r.status ELSE "rejected",
                       found |-> ok /\ r.found,
                       wrote |-> ok /\ r.wrote,
                       rec |-> IF ok THEN r.rec ELSE EmptyObj,
                       list |-> IF ok THEN r.list ELSE <<>>,
                       got |-> IF ok /\ op \notin WriteOnly THEN g.containers ELSE <<>>,
                       rep |-> IF op \notin WriteOnly THEN g.rep ELSE NoRep,
                       before |-> IF ok /\ op \notin WriteOnly THEN g.w ELSE World]
           /\ UNCHANGED <<ver, chrome, pageVars, dragVars, regVars, queueVars>>

Get ==
    /\ hist.calls < hist.limit
    /\ Call("get", NoArg)

Set ==
    /\ hist.calls < hist.limit
    /\ \E list \in InitLists : Call("set", Arg(NoId, EmptyObj, list))

AddContainer ==
    /\ hist.calls < hist.limit
    /\ clock < MaxClock
    /\ \E d \in Drafts : Call("addContainer", Arg(NoId, d, <<>>))

UpdateContainer ==
    /\ hist.calls < hist.limit
    /\ \E id \in CallIds, p \in Partials : Call("updateContainer", Arg(id, p, <<>>))

DeleteContainer ==
    /\ hist.calls < hist.limit
    /\ \E id \in CallIds : Call("deleteContainer", Arg(id, EmptyObj, <<>>))

InitStore ==
    /\ ver = 1
    /\ chrome \in BOOLEAN
    /\ \E item \in {NoItem, Corrupt, NotArray} \cup {Arr(l) : l \in InitLists},
          timers \in {NoItem, Arr(<<Timer(1)>>), Arr(<<Timer(1), [title |-> "x"]>>)} :
        /\ local = [EmptyStore EXCEPT ![KEY_CONTAINERS] = item, ![KEY_TIMERS] = timers]
        /\ sync \in {EmptyStore} \cup
                    (IF chrome
                     THEN {[EmptyStore EXCEPT ![KEY_CONTAINERS] = NotArray]} \cup
                          {[EmptyStore EXCEPT ![KEY_CONTAINERS] = Arr(l)] : l \in InitLists}
                     ELSE {})
    /\ clock = 3
    /\ call = NoCall
    /\ live = <<>>
    /\ columnCount = 2
    /\ loaded = FALSE
    /\ micro = <<>>
    /\ macro = <<>>
    /\ hist = HistInit(MaxCalls, "any")
    /\ NoDrag
    /\ NoPage

NextStore == Get \/ Set \/ AddContainer \/ UpdateContainer \/ DeleteContainer

SpecStore == InitStore /\ [][NextStore]_vars

----------------------------------------------------------------------------
(* Properties of the Storage interface (SpecStore) *)

\* the result of a get() made now, for each thing the synced store may do
FollowingGet(gmode) == StorageGet(World, gmode, FALSE, "ok")

\* the payloads a and b read the same under every key
SameData(a, b) ==
    \A k \in DOMAIN a \cup DOMAIN b :
        IF k \in StrKeys THEN GetStr(a, k) = GetStr(b, k) ELSE Has(a, k) /\ Has(b, k) /\ a[k] = b[k]

\* record r is draft d completed by addContainer with id and createdAt
MatchesDraft(r, d, id, createdAt) ==
    /\ r.id = id
    /\ r.createdAt = createdAt
    /\ r.type = (IF Has(d, "type") THEN d.type ELSE "countdown")
    /\ r.title = (IF Has(d, "title") THEN d.title ELSE "")
    /\ r.description = (IF Has(d, "description") THEN d.description ELSE "")
    /\ r.height = (IF Has(d, "height") THEN d.height ELSE 2)
    /\ SameData(r.data, IF Has(d, "data") THEN d.data ELSE EmptyObj)

\* C1: after addContainer(draft) has completed, a following get() returns a
\* list with exactly one record of the returned id, and that record is the
\* draft with the generated id and createdAt and height 2 by default - for
\* the synced store absent, working, or failing its write.
C1_AddThenGet ==
    (call.op = "addContainer" /\ call.status = "ok") =>
        \A gmode \in GetEnv("get") :
            FollowingGet(gmode).status = "ok" =>
                LET list == FollowingGet(gmode).containers
                    hits == {i \in 1..Len(list) : list[i].id = call.rec.id}
                IN /\ Cardinality(hits) = 1
                   /\ \A i \in hits :
                        MatchesDraft(list[i], call.arg.data, call.rec.id, call.rec.createdAt)

\* a step that is a get() which returned
GetReturned == call'.op = "get" /\ hist'.calls = hist.calls + 1 /\ call'.status = "ok"

SyncServes(gmode) == chrome /\ gmode = "ok" /\ sync[KEY_CONTAINERS].kind = "array"

\* C2 as claimed: get returns the synced list when the synced store is
\* there, reports no error and holds an array; otherwise the durable local
\* list when it parses to an array; otherwise an empty list.
C2_ReadPolicy_Claimed ==
    [][GetReturned =>
        call'.list = IF SyncServes(call'.gmode) THEN sync[KEY_CONTAINERS].val
                     ELSE IF local[KEY_CONTAINERS].kind = "array"
                          THEN local[KEY_CONTAINERS].val
                          ELSE <<>>]_vars

\* C2 amended: as claimed, but when the durable local list does not parse to
\* an array and the legacy timers key holds a well-formed array, get returns
\* the containers migrated from those timers; only otherwise an empty list.
C2_ReadPolicy ==
    [][GetReturned =>
        call'.list = IF SyncServes(call'.gmode) THEN sync[KEY_CONTAINERS].val
                     ELSE IF local[KEY_CONTAINERS].kind = "array"
                          THEN local[KEY_CONTAINERS].val
                          ELSE IF /\ local[KEY_TIMERS].kind = "array"
                                  /\ \A i \in 1..Len(local[KEY_TIMERS].val) :
                                        Has(local[KEY_TIMERS].val[i], "id")
                               THEN MigrateTimersToContainers(local[KEY_TIMERS].val)
                               ELSE <<>>]_vars

\* a get has returned containers migrated from the legacy timers
C2_Witness ==
    /\ call.op = "get" /\ call.status = "ok"
    /\ Len(call.list) = 1 /\ call.list[1].title = "old"
    /\ local[KEY_TIMERS].kind = "none"

\* a step that is a get() for which the synced store was missing or failed
GetWithoutSync ==
    /\ call'.op = "get" /\ hist'.calls = hist.calls + 1
    /\ (~chrome \/ call'.gmode \in {"lastError", "throws"})

\* what the durable local store yields when read
LocalRead ==
    IF local[KEY_CONTAINERS].kind = "array" THEN local[KEY_CONTAINERS].val
    ELSE IF MigratesTimers(World) THEN MigrateTimersToContainers(local[KEY_TIMERS].val)
         ELSE <<>>

\* C3: if the synced store is missing, reports lastError or throws on get,
\* get() still resolves, with what the durable local store yields.
C3_GetSurvivesSync ==
    [][GetWithoutSync => (call'.status = "ok" /\ call'.list = LocalRead)]_vars

\* C4: if the synced write reports an error or throws, set(list) completes
\* without error and the durable local store holds exactly list.
C4_SetSurvivesSync ==
    (call.op = "set" /\ ~call.lfail /\ call.smode \in {"lastError", "throws"}) =>
        /\ call.status = "ok"
        /\ local[KEY_CONTAINERS] = Arr(call.arg.list)

\* C5: when the durable local write fails, set and the operations built on it
\* fail to their caller, the durable local list is the one that was there when
\* the write was attempted, and the synced store has not been written.
C5_LocalFailureIsFatal ==
    call.lfail =>
        /\ call.status = "rejected"
        /\ local[KEY_CONTAINERS] = call.before.local[KEY_CONTAINERS]
        /\ sync = call.before.sync

\* an add has failed on its durable write with the synced store present
C5_Witness ==
    /\ call.op = "addContainer" /\ call.lfail /\ chrome
    /\ local[KEY_CONTAINERS].kind = "array"

----------------------------------------------------------------------------
(* SpecLife: startups and Storage calls of either build, one at a time, over *)
(* stores that may hold legacy data                                          *)

\* a stored record of build 2
Flat(n) ==
    [id |-> <<"container", n>>, type |-> "countdown", title |-> "t", description |-> "",
     height |-> 2, createdAt |-> n, startDate |-> "2024-01-01", targetDate |-> "2024-01-15"]

\* a record of the prior "widgets" schema
Widget(n) ==
    [id |-> <<"widget", n>>, type |-> "text", title |-> "w", description |-> "",
     height |-> 2, createdAt |-> n, text |-> "x"]

\* the lists the containers key may hold at startup
LifeLists == IF ver = 1 THEN {<<Container(1, 1)>>} ELSE {<<Flat(1), Flat(2)>>}

\* the single-countdown keys of the oldest build
SingleLegacy ==
    (LEGACY_target :> "2024-06-01") @@ (LEGACY_start :> "2024-01-01")
        @@ (LEGACY_title :> "old")

\* the legacy data the two stores may hold at startup.  The timers build
\* wrote its list to localStorage and to chrome.storage.sync, so the synced
\* store may hold it too, also alone (another device of the same profile).
LegacyProfiles ==
    {[local |-> EmptyObj, sync |-> EmptyObj],
     [local |-> KEY_TIMERS :> Arr(<<Timer(1)>>), sync |-> EmptyObj],
     [local |-> KEY_TIMERS :> Arr(<<Timer(1), [title |-> "x"]>>), sync |-> EmptyObj],
     [local |-> SingleLegacy, sync |-> EmptyObj]}
    \cup (IF chrome THEN {[local |-> EmptyObj, sync |-> SingleLegacy]} ELSE {})
    \cup (IF ver = 2
          THEN {[local |-> (KEY_WIDGETS :> Arr(<<Widget(1)>>))
                             @@ (KEY_TIMERS :> Arr(<<Timer(2)>>)),
                 sync |-> EmptyObj]}
          ELSE {})
    \cup (IF chrome
          THEN {[local |-> EmptyObj, sync |-> KEY_TIMERS :> Arr(<<Timer(1)>>)],
                [local |-> KEY_TIMERS :> Arr(<<Timer(1)>>),
                 sync |-> KEY_TIMERS :> Arr(<<Timer(1)>>)]}
          ELSE {})

\* the orderedIds given to reorderContainers: a permutation of the stored
\* ids, one that leaves an id out, one that names an id twice
OrderedIds ==
    IF ver = 2
    THEN {<<<<"container", 2>>, <<"container", 1>>>>,
          <<<<"container", 2>>>>,
          <<<<"container", 1>>, <<"container", 1>>, <<"container", 2>>>>}
    ELSE {}

\* the files given to importData: text that is not JSON, JSON without a
\* containers array, and backups with a container list
ImportFiles ==
    IF ver = 1
    THEN {Corrupt, NotArray, Arr(<<Container(2, 0)>>),
          Arr(<<Container(1, 0), Container(1, 1)>>)}
    ELSE {}

\* the failures in the environment of one handler
EnvFaults(e) == Faults(e.gmode, e.lfail, e.smode) + (IF e.rmode # "ok" THEN 1 ELSE 0)

\* the environments of one handler that the fault model allows now
Envs ==
    {e \in [gmode : IF chrome THEN GetModes ELSE {"ok"},
            lfail : BOOLEAN,
            smode : IF chrome THEN SetModes ELSE {"ok"},
            rmode : IF chrome THEN {"ok", "fails"} ELSE {"ok"}] : MayFail(EnvFaults(e))}

\* App.init: the page starts and loadContainers runs to completion
Startup ==
    /\ hist.calls < hist.limit
    /\ \E e \in Envs :
        LET r == LoadContainers(World, e, clock)
        IN /\ r.newId => clock < MaxClock
           /\ hist' = [hist EXCEPT !.calls = @ + 1, !.faults = Failed(EnvFaults(e)),
                                   !.localWriteFailed = @ \/ r.rep.unsaved # {}]
           /\ local' = r.w.local
           /\ sync' = r.w.sync
           /\ clock' = IF r.newId THEN clock + 1 ELSE clock
           /\ call' = [NoCall EXCEPT !.op = "loadContainers", !.gmode = e.gmode,
                                     !.smode = e.smode, !.lfail = e.lfail,
                                     !.status = r.status, !.list = r.list,
                                     !.rep = r.rep, !.before = World,
                                     !.prev = [op |-> call.op, made |-> call.rep.made]]
           /\ UNCHANGED <<ver, chrome, pageVars, dragVars, regVars, queueVars>>

\* build 2: Storage.reorderContainers(orderedIds)
ReorderContainers ==
    /\ ver = 2
    /\ hist.calls < hist.limit
    /\ \E orderedIds \in OrderedIds : Call("reorderContainers", Arg(NoId, EmptyObj, orderedIds))

\* build 1: Settings.importData(file); a file that does not parse or has no
\* containers array is refused before any write
ImportData ==
    /\ ver = 1
    /\ hist.calls < hist.limit
    /\ \E file \in ImportFiles :
        IF file.kind = "array"
        THEN Call("importData", Arg(NoId, EmptyObj, file.val))
        ELSE /\ hist' = [hist EXCEPT !.calls = @ + 1]
             /\ call' = [NoCall EXCEPT !.op = "importData", !.status = "rejected",
                                       !.before = World]
             /\ UNCHANGED <<ver, chrome, pageVars, dragVars, storeVars, regVars, queueVars>>

InitLife ==
    /\ ver \in {1, 2}
    /\ chrome \in BOOLEAN
    /\ \E l \in {NoItem} \cup {Arr(x) : x \in LifeLists}, p \in LegacyProfiles :
        /\ local = Spread([EmptyStore EXCEPT ![KEY_CONTAINERS] = l], p.local)
        /\ \E s \in IF chrome THEN {NoItem, l} ELSE {NoItem} :
            sync = Spread([EmptyStore EXCEPT ![KEY_CONTAINERS] = s], p.sync)
    /\ clock = 3
    /\ call = NoCall
    /\ live = <<>>
    /\ columnCount = 2
    /\ loaded = FALSE
    /\ micro = <<>>
    /\ macro = <<>>
    /\ hist = HistInit(MaxSteps, "once")
    /\ NoDrag
    /\ NoPage

NextLife ==
    \/ Startup
    \/ AddContainer
    \/ UpdateContainer
    \/ DeleteContainer
    \/ ReorderContainers
    \/ ImportData

SpecLife == InitLife /\ [][NextLife]_vars

----------------------------------------------------------------------------
(* Properties of the stored list and of the migration (SpecLife) *)

\* the container list a store holds, empty when the key holds no array
StoredList(store) ==
    IF store[KEY_CONTAINERS].kind = "array" THEN store[KEY_CONTAINERS].val ELSE <<>>

UniqueIds(list) == \A i, j \in 1..Len(list) : list[i].id = list[j].id => i = j

\* C6: in every reachable state of the store, after any sequence of
\* addContainer, updateContainer, deleteContainer, reorderContainers,
\* migration and import, no two records of the container list have the same id.
C6_UniqueIds == UniqueIds(StoredList(local)) /\ UniqueIds(StoredList(sync))

\* the key named sk holds in store pair w what it holds in store pair v
KeptIn(sk, v, w) ==
    LET old == IF sk[1] = "local" THEN v.local[sk[2]] ELSE v.sync[sk[2]]
        new == IF sk[1] = "local" THEN w.local[sk[2]] ELSE w.sync[sk[2]]
    IN new = old

\* C9: in every migration path, if the write of the migrated list to the
\* durable store fails, the legacy keys that were consumed are still present
\* afterwards.
C9_LegacyKeptOnFailure ==
    [][\A sk \in call'.rep.unsaved :
          KeptIn(sk, World, [local |-> local', sync |-> sync'])]_vars

\* the containers key holds a list in the durable store, and in the synced
\* store when there is one
Populated ==
    /\ local[KEY_CONTAINERS].kind = "array"
    /\ chrome => sync[KEY_CONTAINERS].kind = "array"

\* C10: once the containers key has been populated, a later loadContainers
\* reads no legacy key and creates no container from legacy data, also after
\* every container has been deleted.
C10_NoMigrationOncePopulated ==
    [][(Populated /\ call'.op = "loadContainers") =>
          (call'.rep.read = {} /\ ~call'.rep.made)]_vars

\* the last two operations were startups, and the environment never failed
StartedTwice ==
    call.op = "loadContainers" /\ call.prev.op = "loadContainers" /\ hist.faults = 0

\* C11: a startup that directly follows a startup changes neither the stored
\* list nor any other key of either store: the migration is a no-op the
\* second time.
C11_MigrationIdempotent ==
    StartedTwice => (local = call.before.local /\ sync = call.before.sync)

\* the first of the two startups migrated legacy data
C11_Witness == StartedTwice /\ call.prev.made

\* current-schema data exists: a store holds a container list with records
CurrentIn(w) == StoredList(w.local) # <<>> \/ (chrome /\ StoredList(w.sync) # <<>>)

\* the keys of the prior schemas
PriorKeys == {KEY_WIDGETS, KEY_TIMERS}

\* the prior-schema keys that hold an array of records with ids
PriorIn(w) ==
    {<<"local", k>> : k \in {x \in PriorKeys : w.local[x].kind = "array"
                                /\ w.local[x].val # <<>> /\ ~MigrateThrows(w.local[x].val)}}
    \cup (IF chrome
          THEN {<<"sync", k>> : k \in {x \in PriorKeys : w.sync[x].kind = "array"
                                  /\ w.sync[x].val # <<>> /\ ~MigrateThrows(w.sync[x].val)}}
          ELSE {})

\* what the key named sk holds in w
Held(w, sk) == IF sk[1] = "local" THEN w.local[sk[2]] ELSE w.sync[sk[2]]

\* a startup in an environment that has not failed
StartsClean == call'.op = "loadContainers" /\ hist'.faults = 0

\* C12: startup migration follows the priority order.  With current-schema
\* data no legacy key is read, transformed or deleted; otherwise a
\* prior-schema array, when there is one, is transformed, and only it; a
\* countdown is made from the single-record keys only when neither exists.
C12_MigrationPriority ==
    [][StartsClean =>
        IF CurrentIn(World)
        THEN /\ call'.rep.read = {} /\ call'.rep.consumed = {}
             /\ \A k \in PriorKeys \cup SingleKeys : local'[k] = local[k] /\ sync'[k] = sync[k]
        ELSE PriorIn(World) # {} =>
                \E sk \in PriorIn(World) :
                    /\ call'.rep.consumed = {sk}
                    /\ call'.rep.made
                    /\ Ids(call'.list) = {<<"container", Held(World, sk).val[i].id[2]>> :
                                            i \in 1..Len(Held(World, sk).val)}]_vars

\* the key k is absent from the store
AbsentIn(store, k) == IF k \in ArrayKeys THEN store[k].kind = "none" ELSE store[k] = Null

\* the names of the keys whose data the last operation migrated
ConsumedNames(rep) == {sk[2] : sk \in rep.consumed}

\* C13: after each successful migration the legacy keys that were consumed
\* are absent from the durable local store and from the synced store, and no
\* legacy key whose data was not migrated has been deleted.
C13_ConsumedKeysCleaned ==
    [][(call'.rep.made /\ call'.status = "ok" /\ hist'.faults = 0) =>
          \A k \in PriorKeys \cup SingleKeys :
              IF k \in ConsumedNames(call'.rep)
              THEN AbsentIn(local', k) /\ AbsentIn(sync', k)
              ELSE /\ AbsentIn(local', k) => AbsentIn(local, k)
                   /\ AbsentIn(sync', k) => AbsentIn(sync, k)]_vars

----------------------------------------------------------------------------
(* Frame and order properties of the Storage operations *)

\* the records of list other than those with the id
Others(list, id) == SelectSeq(list, LAMBDA c : c.id # id)

\* a call of one of the three record operations that completed
RecordOpDone ==
    call.op \in {"addContainer", "updateContainer", "deleteContainer"} /\ call.status = "ok"

\* the list the operation handed to set is the list get gave it with only
\* the operation's own record touched
FrameKept ==
    CASE call.op = "addContainer" ->
            /\ Len(call.list) = Len(call.got) + 1
            /\ \A i \in 1..Len(call.got) : call.list[i] = call.got[i]
            /\ call.list[Len(call.list)] = call.rec
      [] call.op = "updateContainer" ->
            /\ Len(call.list) = Len(call.got)
            /\ \A i \in 1..Len(call.got) :
                    IF call.got[i].id = call.arg.id
                    THEN call.list[i] = call.rec /\ call.rec.id = call.arg.id
                    ELSE call.list[i] = call.got[i]
      [] call.op = "deleteContainer" ->
            /\ call.list = Others(call.got, call.arg.id)
            /\ Len(call.list) >= Len(call.got) - 1

\* C14: Storage.addContainer, updateContainer and deleteContainer leave every
\* other record of the list where it was and as it was: add puts the new
\* record after the records get returned, update replaces the record at its
\* index, delete takes out the named record only; and the list they built is
\* the one each backend that took the write then holds.
C14_FrameEffect ==
    RecordOpDone =>
        /\ FrameKept
        /\ call.wrote => StoredList(local) = JSONStringify(call.list).val
        /\ (call.wrote /\ chrome /\ call.smode = "ok") =>
                StoredList(sync) = JSONStringify(call.list).val

\* deleteContainer has taken the first of two records out of the stored list
C14_Witness ==
    /\ RecordOpDone /\ call.wrote /\ Len(call.got) = 2
    /\ call.op = "deleteContainer" /\ call.arg.id = <<"container", 1>>
    /\ StoredList(local) = <<Container(2, 1)>>

\* an updateContainer that found its record and completed
UpdateDone ==
    call.op = "updateContainer" /\ call.status = "ok" /\ call.found

\* the index of the record updateContainer merges into: the first with the id
Merged(i) ==
    /\ call.got[i].id = call.arg.id
    /\ \A j \in 1..(i - 1) : call.got[j].id # call.arg.id

\* rec is old with each top-level field of partial put in its place
ShallowMerge(rec, old, partial) ==
    /\ DOMAIN rec = DOMAIN old \cup DOMAIN partial
    /\ \A k \in DOMAIN partial : rec[k] = partial[k]
    /\ \A k \in DOMAIN old \ DOMAIN partial : rec[k] = old[k]

\* C24: Storage.updateContainer(id, partial) is a shallow merge: the record it
\* returns has the partial's value under each top-level field of the partial
\* (a `data` partial replaces the whole `data`), the old value under every
\* other field, and that record is the one stored in the record's place.
C24_ShallowMerge ==
    UpdateDone =>
        \E i \in 1..Len(call.got) :
            /\ Merged(i)
            /\ ShallowMerge(call.rec, call.got[i], call.arg.data)
            /\ call.list[i] = call.rec
            /\ call.wrote /\ StoredList(local)[i] = JSONStringify(<<call.rec>>).val[1]
            /\ (chrome /\ call.smode = "ok") =>
                    StoredList(sync)[i] = JSONStringify(<<call.rec>>).val[1]

\* a partial with a title and a `data` has been merged into the second record:
\* the stored record has the new title and only the partial's `data`
C24_Witness ==
    /\ UpdateDone /\ call.arg.id = <<"container", 2>> /\ Has(call.arg.data, "data")
    /\ Len(StoredList(local)) = 2
    /\ StoredList(local)[2] = [Container(2, 1) EXCEPT !.title = "new", !.data = [content |-> "y"]]

\* Math.max(1, Math.min(5, h)): the range the height buttons keep
Clamped(h) == IF h < 1 THEN 1 ELSE IF h > 5 THEN 5 ELSE h

\* every record of the list that has a height has one in 1..5
HeightsInRange(list) ==
    \A i \in 1..Len(list) : Has(list[i], "height") => list[i].height \in 1..5

\* C25: Storage.updateContainer(id, {height: h}) stores a height clamped to
\* [1,5]: the stored and returned record has height 5 for h = 7, and every
\* stored height lies in [1,5].
C25_HeightClamped ==
    /\ (UpdateDone /\ Has(call.arg.data, "height")) =>
            call.rec.height = Clamped(call.arg.data.height)
    /\ HeightsInRange(StoredList(local)) /\ HeightsInRange(StoredList(sync))

\* a reorderContainers that completed
ReorderDone == call.op = "reorderContainers" /\ call.status = "ok"

\* the ids of list are exactly a permutation of orderedIds
PermutationOf(orderedIds, list) ==
    /\ Len(orderedIds) = Len(list)
    /\ UniqueIds(list)
    /\ {orderedIds[i] : i \in 1..Len(orderedIds)} = Ids(list)

\* the ids of orderedIds that match a record of list, in their order
Known(orderedIds, list) == SelectSeq(orderedIds, LAMBDA id : id \in Ids(list))

\* result holds, position by position, a record of list that has the id
Projects(result, ids, list) ==
    /\ Len(result) = Len(ids)
    /\ \A i \in 1..Len(ids) :
            /\ result[i].id = ids[i]
            /\ \E j \in 1..Len(list) : list[j] = result[i]

\* C15: a completed reorderContainers(orderedIds) on a list whose ids are
\* exactly a permutation of orderedIds leaves the store holding the same
\* records, each with every field as it was, in the order of orderedIds; on
\* any list, the ids that match no stored record are passed over and the
\* others are projected in their order.
C15_ReorderProjects ==
    ReorderDone =>
        /\ PermutationOf(call.arg.list, call.got) =>
                Projects(call.list, call.arg.list, call.got)
        /\ Projects(call.list, Known(call.arg.list, call.got), call.got)
        /\ StoredList(local) = call.list
        /\ (chrome /\ call.smode = "ok") => StoredList(sync) = call.list

\* [c1, c2] was reordered by [c2, c1] and the store holds [c2, c1]
C15_Witness ==
    /\ ReorderDone
    /\ call.got = <<Flat(1), Flat(2)>>
    /\ call.arg.list = <<<<"container", 2>>, <<"container", 1>>>>
    /\ StoredList(local) = <<Flat(2), Flat(1)>>

\* an id of orderedIds matched no stored record and was passed over
StaleIdIgnored ==
    ReorderDone /\ Len(Known(call.arg.list, call.got)) < Len(call.arg.list) /\ call.list # <<>>

----------------------------------------------------------------------------
(* ContainerManager of build 1: the live map, and Storage calls in flight *)

\* a Storage call in flight.  kind is where it waits: "getcb" for the callback
\* of chrome.storage.sync.get, "afterGet" to resume after `await this.get()`,
\* "setcb" for the callback of chrome.storage.sync.set, "done" to resume its
\* caller.  snap is what the synced store held when get was sent to it, list
\* what get resolved with, rec what the call returns.
Task(caller, op, arg, gmode) ==
    [kind |-> "new", caller |-> caller, op |-> op, arg |-> arg, gmode |-> gmode,
     snap |-> NoItem, list |-> <<>>, rec |-> EmptyObj]

\* the stores and the two queues of the event loop
Machine == [w |-> World, micro |-> micro, macro |-> macro]

\* a Storage operation is called and runs to its first await.  Without
\* chrome.storage get reads localStorage at once; with it the request goes to
\* the synced store, or the call throws and the operation's promise is rejected.
IssueOp(m, t) ==
    IF ~chrome
    THEN LET g == GetFromLocalStorage(m.w, FALSE, "ok")
         IN [m EXCEPT !.w = g.w,
                      !.micro = Append(@, [t EXCEPT !.kind = "afterGet",
                                                    !.list = g.containers])]
    ELSE IF t.gmode = "throws"
         THEN m
         ELSE [m EXCEPT !.macro = Append(@, [t EXCEPT !.kind = "getcb",
                                                      !.snap = m.w.sync[KEY_CONTAINERS]])]

\* the calls of one handler, in the order it makes them
RECURSIVE IssueAll(_, _)
IssueAll(m, tasks) ==
    IF tasks = <<>> THEN m ELSE IssueAll(IssueOp(m, Head(tasks)), Tail(tasks))

\* ContainerFactory.create: a type that is not registered gives a countdown
ClassOf(data) ==
    IF OrStr(data, "type", "countdown") \in {"image", "text"}
    THEN OrStr(data, "type", "countdown") ELSE "countdown"

\* CountdownContainer.initCountdownData, on the record it was given: a
\* payload without a to-do list gets an empty one
InitCountdownData(data) ==
    IF ClassOf(data) = "countdown" /\ Has(data, "data") /\ ~Has(data.data, "todos")
    THEN [data EXCEPT !.data = Spread(@, [todos |-> <<>>])]
    ELSE data

\* a createContainer that takes the recorded column as it is
CreateContainer_Unclamped(lv, data, count) ==
    LET entry == [id |-> data.id, data |-> InitCountdownData(data),
                  el |-> OrNum(data, "column", 0)]
        index == FindIndex(lv, data.id)
    IN IF index # 0 THEN [lv EXCEPT ![index] = entry] ELSE Append(lv, entry)

\* ContainerManager.createContainer(data) with `count` columns: the instance
\* goes into the map under data.id and its element into a column
CreateContainer(lv, data, count) ==
    LET column == OrNum(data, "column", 0)
        columnIndex == IF column < count - 1 THEN column ELSE count - 1
        entry == [id |-> data.id, data |-> InitCountdownData(data), el |-> columnIndex]
        index == FindIndex(lv, data.id)
    IN IF index # 0 THEN [lv EXCEPT ![index] = entry] ELSE Append(lv, entry)

\* for (const containerData of containers) this.createContainer(containerData)
RECURSIVE CreateAll(_, _, _)
CreateAll(lv, list, count) ==
    IF list = <<>> THEN lv
    ELSE CreateAll(CreateContainer(lv, Head(list), count), Tail(list), count)

\* col.children.length of column k
ChildCount(lv, k) == Cardinality({i \in 1..Len(lv) : lv[i].el = k})

\* columnCounts.indexOf(Math.min(...columnCounts))
LeastPopulated(lv, count) ==
    CHOOSE k \in 0..(count - 1) :
        /\ \A j \in 0..(count - 1) : ChildCount(lv, k) <= ChildCount(lv, j)
        /\ \A j \in 0..(k - 1) : ChildCount(lv, j) > ChildCount(lv, k)

\* the ids of the live map
LiveIds == {live[i].id : i \in 1..Len(live)}

\* addContainer calls that have not taken their id yet
PendingAdds ==
    Cardinality({i \in 1..Len(micro) : micro[i].op = "addContainer" /\ micro[i].kind = "afterGet"})
    + Cardinality({i \in 1..Len(macro) : macro[i].op = "addContainer" /\ macro[i].kind = "getcb"})

----------------------------------------------------------------------------
(* SpecReg: build 1 running in the page: loadContainers, then handlers of   *)
(* user events, with chrome callbacks and promise continuations in between *)

MaxEvents == 2     \* user events handled in SpecReg

\* the column counts the settings dialog offers
ColumnChoices == {1, 2, 3}

\* the lists the stores hold when the page opens; the synced store, which the
\* browser shares between devices, may hold another list than localStorage
RegLists == {<<Container(1, 1), Container(2, 1)>>, <<Container(1, 0), Container(2, 1)>>}

\* a handler's effect on the stores and the queues
Commit(m) ==
    /\ local' = m.w.local
    /\ sync' = m.w.sync
    /\ micro' = m.micro
    /\ macro' = m.macro

\* a handler of a user event has run: op is the method called, gmode what
\* chrome.storage.sync.get did for its Storage calls, issued tells that it
\* made one
Event(op, arg, gmode, issued) ==
    /\ issued \/ gmode = "ok"
    /\ MayFail(Faults(gmode, FALSE, "ok"))
    /\ hist' = [hist EXCEPT !.calls = @ + 1, !.faults = Failed(Faults(gmode, FALSE, "ok"))]
    /\ call' = [NoCall EXCEPT !.op = op, !.arg = arg, !.gmode = gmode, !.list = live,
                              !.before = World, !.quiet = (macro = <<>>)]

\* App.init: ContainerManager.loadContainers() from start to end, but for
\* the elements it puts on the page
LoadPage ==
    /\ ~loaded
    /\ \E e \in Envs :
        LET r == LoadContainers(World, e, clock)
        IN /\ r.newId => clock < MaxClock
           /\ local' = r.w.local
           /\ sync' = r.w.sync
           /\ clock' = IF r.newId THEN clock + 1 ELSE clock
           /\ live' = IF r.status = "ok" THEN CreateAll(<<>>, r.list, columnCount) ELSE <<>>
           /\ loaded' = TRUE
           /\ hist' = [hist EXCEPT !.faults = Failed(EnvFaults(e)),
                                   !.localWriteFailed = @ \/ r.rep.unsaved # {}]
           /\ call' = [NoCall EXCEPT !.op = "loadContainers", !.gmode = e.gmode,
                                     !.smode = e.smode, !.lfail = e.lfail,
                                     !.status = r.status, !.list = r.list,
                                     !.rep = r.rep, !.before = World]
           /\ UNCHANGED <<ver, chrome, pageVars, columnCount, queueVars>>

\* the page opens, in the model of the registry, which leaves the order of
\* the elements on the page out
Load ==
    /\ ~loaded
    /\ LoadPage
    /\ UNCHANGED dragVars

\* ContainerManager.addNewContainer(data), up to its await
AddNewContainer ==
    /\ loaded /\ micro = <<>> /\ hist.calls < hist.limit
    /\ clock + PendingAdds < MaxClock
    /\ \E d \in Drafts, gmode \in GetEnv("addContainer") :
        LET data == IF Has(d, "column") THEN d
                    ELSE Spread(d, [column |-> LeastPopulated(live, columnCount)])
            arg == Arg(NoId, data, <<>>)
        IN /\ Commit(IssueOp(Machine, Task("addNewContainer", "addContainer", arg, gmode)))
           /\ Event("addNewContainer", arg, gmode, TRUE)
           /\ UNCHANGED <<ver, chrome, pageVars, dragVars, clock, regVars>>

\* an updateContainer that asks the store whether or not the id is live
ManagerUpdateContainer_Unchecked ==
    /\ loaded /\ micro = <<>> /\ hist.calls < hist.limit
    /\ \E id \in CallIds, p \in Partials, gmode \in GetEnv("updateContainer") :
        LET arg == Arg(id, p, <<>>)
        IN /\ Commit(IssueOp(Machine, Task("updateContainer", "updateContainer", arg, gmode)))
           /\ Event("updateContainer", arg, gmode, TRUE)
           /\ UNCHANGED <<ver, chrome, pageVars, dragVars, clock, regVars>>

\* ContainerManager.updateContainer(id, data), up to its await
ManagerUpdateContainer ==
    /\ loaded /\ micro = <<>> /\ hist.calls < hist.limit
    /\ \E id \in CallIds, p \in Partials, gmode \in GetEnv("updateContainer") :
        LET container == FindIndex(live, id)
            arg == Arg(id, p, <<>>)
        IN /\ Commit(IF container # 0
                     THEN IssueOp(Machine, Task("updateContainer", "updateContainer", arg, gmode))
                     ELSE Machine)
           /\ Event("updateContainer", arg, gmode, container # 0)
           /\ UNCHANGED <<ver, chrome, pageVars, dragVars, clock, regVars>>

\* a deleteContainer that asks the store and leaves the instance in the map
ManagerDeleteContainer_Keeping ==
    /\ loaded /\ micro = <<>> /\ hist.calls < hist.limit
    /\ \E id \in CallIds, gmode \in GetEnv("deleteContainer") :
        LET container == FindIndex(live, id)
            arg == Arg(id, EmptyObj, <<>>)
        IN /\ Commit(IF container # 0
                     THEN IssueOp(Machine, Task("deleteContainer", "deleteContainer", arg, gmode))
                     ELSE Machine)
           /\ live' = live
           /\ Event("deleteContainer", arg, gmode, container # 0)
           /\ UNCHANGED <<ver, chrome, pageVars, dragVars, clock, columnCount, loaded>>

\* ContainerManager.deleteContainer(id), up to its await: the instance leaves
\* the map before the store is asked
ManagerDeleteContainer ==
    /\ loaded /\ micro = <<>> /\ hist.calls < hist.limit
    /\ \E id \in CallIds, gmode \in GetEnv("deleteContainer") :
        LET container == FindIndex(live, id)
            arg == Arg(id, EmptyObj, <<>>)
        IN /\ Commit(IF container # 0
                     THEN IssueOp(Machine, Task("deleteContainer", "deleteContainer", arg, gmode))
                     ELSE Machine)
           /\ live' = FilterOut(live, id)
           /\ Event("deleteContainer", arg, gmode, container # 0)
           /\ UNCHANGED <<ver, chrome, pageVars, dragVars, clock, columnCount, loaded>>

\* setColumnCount: the Storage.updateContainer calls for the instances whose
\* column is past the last one, in the order of the map
ColumnTasks(lv, count, gmode) ==
    LET past == SelectSeq(lv, LAMBDA c : OrNum(c.data, "column", 0) >= count)
    IN [i \in 1..Len(past) |->
            Task("setColumnCount", "updateContainer",
                 Arg(past[i].id, [column |-> count - 1], <<>>), gmode)]

\* setColumnCount: the instances with their column brought into range and
\* their elements put into the columns made anew
Replaced(lv, count) ==
    LET Past(c) == OrNum(c.data, "column", 0) >= count
        Clamp(c) == IF Past(c)
                    THEN [c EXCEPT !.data = Spread(c.data, [column |-> count - 1])]
                    ELSE c
        Place(c) == [c EXCEPT !.el = IF OrNum(c.data, "column", 0) < count
                                     THEN OrNum(c.data, "column", 0) ELSE -1]
    IN [i \in 1..Len(lv) |-> Place(Clamp(lv[i]))]

\* ContainerManager.setColumnCount(count): every instance whose column is past
\* the last one is put in the last one, with a Storage.updateContainer that
\* nothing awaits; then the columns are made anew
SetColumnCount ==
    /\ loaded /\ micro = <<>> /\ hist.calls < hist.limit
    /\ \E count \in ColumnChoices \ {columnCount}, gmode \in GetEnv("updateContainer") :
        LET tasks == ColumnTasks(live, count, gmode)
        IN /\ Commit(IssueAll(Machine, tasks))
           /\ columnCount' = count
           /\ live' = Replaced(live, count)
           /\ Event("setColumnCount", Arg(NoId, [count |-> count, was |-> columnCount], <<>>),
                    gmode, tasks # <<>>)
           /\ UNCHANGED <<ver, chrome, pageVars, dragVars, clock, loaded>>

\* a Storage operation resumes after `await this.get()` with the list that
\* get gave it: it changes the list and calls set
AfterGet(t) ==
    \E lfail \in BOOLEAN :
      \E smode \in SetEnv(lfail) :
        LET r == StorageOp(World, t.op, t.arg, t.list, lfail, smode, clock)
            next == [t EXCEPT !.rec = r.rec, !.kind = IF r.cb THEN "setcb" ELSE "done"]
        IN /\ r.wrote \/ Faults("ok", lfail, smode) = 0
           /\ MayFail(Faults("ok", lfail, smode))
           /\ local' = r.w.local
           /\ sync' = r.w.sync
           /\ clock' = IF t.op = "addContainer" THEN clock + 1 ELSE clock
           /\ micro' = IF r.status = "ok" /\ ~r.cb THEN Append(Tail(micro), next)
                       ELSE Tail(micro)
           /\ macro' = IF r.status = "ok" /\ r.cb THEN Append(macro, next) ELSE macro
           /\ hist' = [hist EXCEPT !.faults = Failed(Faults("ok", lfail, smode)),
                                   !.localWriteFailed = @ \/ (r.wrote /\ lfail)]
           /\ UNCHANGED <<ver, chrome, pageVars, dragVars, call, regVars>>

\* the caller of a Storage operation resumes after its await
Done(t) ==
    /\ live' = CASE t.caller = "addNewContainer" ->
                        CreateContainer(live, t.rec, columnCount)
                 [] t.caller = "updateContainer" /\ FindIndex(live, t.arg.id) # 0 ->
                        [live EXCEPT ![FindIndex(live, t.arg.id)].data =
                                        InitCountdownData(Spread(@, t.arg.data))]
                 [] OTHER -> live
    /\ micro' = Tail(micro)
    /\ UNCHANGED <<ver, chrome, pageVars, dragVars, storeVars, call, columnCount, loaded,
                   macro, hist>>

\* the event loop runs the oldest promise continuation
RunMicro ==
    /\ micro # <<>>
    /\ IF Head(micro).kind = "afterGet" THEN AfterGet(Head(micro)) ELSE Done(Head(micro))

\* an event loop that runs the newest chrome callback first
Deliver_NewestFirst ==
    /\ macro # <<>> /\ micro = <<>>
    /\ LET t == macro[Len(macro)]
           g == StorageGet([World EXCEPT !.sync[KEY_CONTAINERS] = t.snap], t.gmode,
                           FALSE, "ok")
       IN /\ micro' = IF t.kind = "getcb"
                      THEN <<[t EXCEPT !.kind = "afterGet", !.list = g.containers]>>
                      ELSE <<[t EXCEPT !.kind = "done"]>>
          /\ macro' = SubSeq(macro, 1, Len(macro) - 1)
          /\ local' = IF t.kind = "getcb" THEN g.w.local ELSE local
          /\ sync' = IF t.kind = "getcb" /\ g.rep.consumed # {}
                     THEN g.w.sync ELSE sync
          /\ UNCHANGED <<ver, chrome, pageVars, dragVars, clock, call, regVars, hist>>

\* the event loop, with no continuation left, runs the oldest chrome callback:
\* get's callback resolves get with the synced list or with what localStorage
\* holds now, set's callback resolves set
Deliver ==
    /\ macro # <<>> /\ micro = <<>>
    /\ LET t == Head(macro)
           g == StorageGet([World EXCEPT !.sync[KEY_CONTAINERS] = t.snap], t.gmode,
                           FALSE, "ok")
       IN /\ micro' = IF t.kind = "getcb"
                      THEN <<[t EXCEPT !.kind = "afterGet", !.list = g.containers]>>
                      ELSE <<[t EXCEPT !.kind = "done"]>>
          /\ macro' = Tail(macro)
          /\ local' = IF t.kind = "getcb" THEN g.w.local ELSE local
          /\ sync' = IF t.kind = "getcb" /\ g.rep.consumed # {}
                     THEN g.w.sync ELSE sync
          /\ UNCHANGED <<ver, chrome, pageVars, dragVars, clock, call, regVars, hist>>

InitReg ==
    /\ ver = 1
    /\ chrome \in BOOLEAN
    /\ \E l \in {NoItem} \cup {Arr(x) : x \in RegLists} :
        /\ local = [EmptyStore EXCEPT ![KEY_CONTAINERS] = l]
        /\ sync \in {[EmptyStore EXCEPT ![KEY_CONTAINERS] = s] :
                        s \in IF chrome THEN {NoItem, l} \cup {Arr(x) : x \in RegLists}
                              ELSE {NoItem}}
    /\ clock = 3
    /\ call = NoCall
    /\ live = <<>>
    /\ columnCount = 2
    /\ loaded = FALSE
    /\ micro = <<>>
    /\ macro = <<>>
    /\ hist = HistInit(MaxEvents, "once")
    /\ NoDrag
    /\ NoPage

NextReg ==
    \/ Load
    \/ AddNewContainer
    \/ ManagerUpdateContainer
    \/ ManagerDeleteContainer
    \/ SetColumnCount
    \/ RunMicro
    \/ Deliver

SpecReg == InitReg /\ [][NextReg]_vars

----------------------------------------------------------------------------
(* Properties of the registry (SpecReg) *)

\* no Storage call is waiting for a callback or for a continuation
Settled == micro = <<>> /\ macro = <<>>

\* C7: whenever no registry operation (loadContainers, addNewContainer,
\* updateContainer, deleteContainer) is in flight and no durable local write
\* has failed, the ids of the live map are the ids of the durable store's list.
C7_LiveMatchesStore ==
    (loaded /\ Settled /\ ~hist.localWriteFailed) => LiveIds = Ids(StoredList(local))

\* the column of the record with this id in a list, -1 when it has none
ColumnIn(list, id) ==
    IF FindIndex(list, id) # 0 /\ Has(list[FindIndex(list, id)], "column")
    THEN list[FindIndex(list, id)].column ELSE -1

\* the records of the instances in the live map lv
LiveData(lv) == [i \in 1..Len(lv) |-> lv[i].data]

\* the stored records as the instances made from them hold them
AsLive(list) == [i \in 1..Len(list) |-> InitCountdownData(list[i])]

\* the last event was setColumnCount(n) with n below the count before, made
\* when nothing was in flight and the stores held the records of the live
\* instances; the environment has not failed, and every write that the call
\* issued has completed
ColumnsReduced ==
    /\ call.op = "setColumnCount"
    /\ call.arg.data.count < call.arg.data.was
    /\ call.quiet
    /\ AsLive(StoredList(call.before.local)) = LiveData(call.list)
    /\ chrome => AsLive(StoredList(call.before.sync)) = LiveData(call.list)
    /\ hist.faults = 0
    /\ Settled

\* C8: after setColumnCount(n) with n below the current count, once its store
\* writes have completed, every container that had column >= n has column
\* n - 1 in its live instance and in its stored record, however many such
\* containers there are, and every other container keeps its column.
C8_ColumnsClamped ==
    ColumnsReduced =>
        \A i \in 1..Len(call.list) :
            LET c == call.list[i].data
                n == call.arg.data.count
                want == IF OrNum(c, "column", 0) >= n THEN n - 1 ELSE c.column
            IN /\ ColumnIn(LiveData(live), c.id) = want
               /\ ColumnIn(StoredList(local), c.id) = want

\* a step that handles ContainerManager.deleteContainer(id) for a live id
DeletesLive ==
    /\ call'.op = "deleteContainer" /\ hist'.calls = hist.calls + 1
    /\ call'.arg.id \in LiveIds

\* the Storage calls that wait in the queues, oldest first within each queue
InFlight(mi, ma) == mi \o ma

\* C21: ContainerManager.deleteContainer(id) for a live id takes the instance
\* out of the live map (and off the page) in the handler itself, when the
\* store holds what it held and the delete is at most on its way to it; and
\* an id that is not in the live map, whatever became of the store delete,
\* is not put back.
C21_UnmountBeforeDelete ==
    [][/\ DeletesLive =>
            /\ call'.arg.id \notin {live'[i].id : i \in 1..Len(live')}
            /\ local' = local /\ sync' = sync
            /\ call'.gmode = "ok" =>
                    \E i \in 1..Len(InFlight(micro', macro')) :
                        /\ InFlight(micro', macro')[i].op = "deleteContainer"
                        /\ InFlight(micro', macro')[i].arg.id = call'.arg.id
       /\ \A id \in CallIds :
            (loaded /\ id \notin LiveIds) => id \notin {live'[i].id : i \in 1..Len(live')}]_vars

\* the delete of a live container did not reach the store, which still holds
\* the record, and the instance is gone from the live map
C21_Witness ==
    /\ call.op = "deleteContainer" /\ Settled
    /\ hist.faults = 1
    /\ call.arg.id \in Ids(StoredList(local))
    /\ call.arg.id \in {call.list[i].id : i \in 1..Len(call.list)}
    /\ call.arg.id \notin LiveIds

\* a step that handles ContainerManager.updateContainer or deleteContainer
\* for an id that is not in the live map
CallsForStranger ==
    /\ call'.op \in {"updateContainer", "deleteContainer"}
    /\ hist'.calls = hist.calls + 1
    /\ call'.arg.id \notin LiveIds

\* a step in which Storage.updateContainer resumes after its get with a list
\* that has no record of the id
UpdatesAbsent ==
    /\ micro # <<>> /\ micro' # micro
    /\ Head(micro).kind = "afterGet" /\ Head(micro).op = "updateContainer"
    /\ Head(micro).arg.id \notin Ids(Head(micro).list)

\* C22: ContainerManager.updateContainer and deleteContainer for an id that
\* is not in the live map change neither the live map nor a store and start
\* no Storage call; and Storage.updateContainer for an id that the stored
\* list does not have writes to neither store and returns no record.
C22_StrangerIsNoOp ==
    [][/\ CallsForStranger =>
            /\ live' = live
            /\ local' = local /\ sync' = sync
            /\ micro' = micro /\ macro' = macro
       /\ UpdatesAbsent =>
            /\ local' = local /\ sync' = sync
            /\ macro' = macro
            /\ micro' = Append(Tail(micro), [Head(micro) EXCEPT !.kind = "done"])
            /\ micro'[Len(micro')].rec = EmptyObj]_vars

\* deleteContainer was called for an id that was not in the live map
C22_Witness ==
    /\ loaded /\ call.op = "deleteContainer" /\ hist.calls > 0
    /\ call.arg.id \notin {call.list[i].id : i \in 1..Len(call.list)}
    /\ call.arg.id \notin LiveIds

----------------------------------------------------------------------------
(* DragDrop: the elements on the page and the drag of one of them *)

\* array.filter(x => x !== id) on a list of ids
Without(ids, id) == SelectSeq(ids, LAMBDA x : x # id)

\* array.indexOf(id), counted from 0, -1 when absent
IndexOf(ids, id) ==
    IF \E i \in 1..Len(ids) : ids[i] = id
    THEN (CHOOSE i \in 1..Len(ids) : ids[i] = id /\ \A j \in 1..(i - 1) : ids[j] # id) - 1
    ELSE -1

\* array.splice(start, 0, id): a negative start counts from the end
Splice(ids, start, id) ==
    LET from == IF start < 0
                THEN (IF Len(ids) + start > 0 THEN Len(ids) + start ELSE 0)
                ELSE (IF start < Len(ids) THEN start ELSE Len(ids))
    IN SubSeq(ids, 1, from) \o <<id>> \o SubSeq(ids, from + 1, Len(ids))

\* the elements createContainer has appended for the instances of lv: each
\* column holds its elements in the order they were made
Appended(lv, count) ==
    [k \in 1..count |->
        LET mine == SelectSeq(lv, LAMBDA c : c.el = k - 1)
        IN [i \in 1..Len(mine) |-> mine[i].id]]

\* targetElement.closest('.container-column'), as an index into the page
ColumnOf(d, id) == CHOOSE k \in DOMAIN d : \E i \in 1..Len(d[k]) : d[k][i] = id

\* clearDropIndicators()
ClearDropIndicators(mk) == [id \in DOMAIN mk |-> {}]

\* e.clientY < rect.top + rect.height / 2
AboveMid(clientY, rect) == 2 * clientY < 2 * rect.top + rect.height

\* a dragover that leaves the mark of the element's other half in place
HandleDragOver_Keeping(mk, element, clientY, rect) ==
    [mk EXCEPT ![element] =
        @ \cup {IF AboveMid(clientY, rect) THEN "drop-before" ELSE "drop-after"}]

\* handleDragOver past its guard: both marks leave the element and the mark
\* of the pointer's half is put on it
HandleDragOver(mk, element, clientY, rect) ==
    [mk EXCEPT ![element] =
        (@ \ {"drop-before", "drop-after"})
            \cup {IF AboveMid(clientY, rect) THEN "drop-before" ELSE "drop-after"}]

\* build 1: targetColumn.insertBefore(draggedElement, targetElement) or
\* targetColumn.insertBefore(draggedElement, targetElement.nextSibling)
InsertInColumn(d, dragged, target, insertBefore) ==
    LET k == ColumnOf(d, target)
        rest == [j \in DOMAIN d |-> Without(d[j], dragged)]
        at == IndexOf(rest[k], target)
    IN [rest EXCEPT ![k] = Splice(@, IF insertBefore THEN at ELSE at + 1, dragged)]

\* build 1: columnEl.appendChild(draggedElement)
AppendToColumn(d, dragged, k) ==
    [j \in DOMAIN d |-> IF j = k THEN Append(Without(d[j], dragged), dragged)
                        ELSE Without(d[j], dragged)]

\* build 1: container.data.column = targetColumnIndex, on the instance of the
\* dragged id; el is the column its element is in
MovedTo(lv, id, columnIndex) ==
    [i \in 1..Len(lv) |->
        IF lv[i].id = id
        THEN [lv[i] EXCEPT !.data = Spread(@, [column |-> columnIndex]), !.el = columnIndex]
        ELSE lv[i]]

\* a newOrder that looks the target up in the order that still holds the
\* dragged id
NewOrder_Unshifted(grid, draggedId, targetId, insertBefore) ==
    LET targetIndex == IndexOf(grid, targetId)
    IN Splice(Without(grid, draggedId),
              IF insertBefore THEN targetIndex ELSE targetIndex + 1, draggedId)

\* build 2: the newOrder that handleDrop computes from the grid
NewOrder(grid, draggedId, targetId, insertBefore) ==
    LET newOrder == Without(grid, draggedId)
        targetIndex == IndexOf(newOrder, targetId)
    IN Splice(newOrder, IF insertBefore THEN targetIndex ELSE targetIndex + 1, draggedId)

\* build 2: reorderDOM(orderedIds): each element that is found is appended
\* to the grid, in the order of orderedIds
RECURSIVE ReorderDOM(_, _)
ReorderDOM(grid, orderedIds) ==
    IF orderedIds = <<>> THEN grid
    ELSE LET id == Head(orderedIds)
         IN ReorderDOM(IF IndexOf(grid, id) # -1 THEN Append(Without(grid, id), id) ELSE grid,
                       Tail(orderedIds))

\* the Storage call that a drop makes and nothing awaits
DropTask(op, arg) == Task("handleDrop", op, arg, "ok")

----------------------------------------------------------------------------
(* SpecDrag: the page of either build, with drags of its containers, drags *)
(* of something else over them, and the store writes the drops start       *)

MaxDrags == 1      \* dragstart events in SpecDrag

\* the list the stores hold when the page opens
DragLists ==
    IF ver = 1
    THEN {<<Container(1, 0), Container(2, 0), Container(3, 1)>>}
    ELSE {<<Flat(1), Flat(2), Flat(3), Flat(4)>>}

\* the elements the user picks up
DragSources == {<<"container", 1>>, <<"container", 2>>}

\* the elements that may be made fullscreen
FullscreenIds == {<<"container", 1>>}

\* where the pointer is and the box of the element under it
PointerYs == {1, 2, 3}
Rects == {[top |-> 0, height |-> 4]}

\* the handler of a drag event has run; only dragstart events are counted
DragEvent(op, arg) ==
    /\ call' = [NoCall EXCEPT !.op = op, !.arg = arg, !.list = live, !.before = World]
    /\ hist' = IF op = "dragstart" THEN [hist EXCEPT !.calls = @ + 1] ELSE hist

\* the page opens: loadContainers, and createContainer puts an element in
\* its column for every record
LoadShown ==
    /\ ~loaded
    /\ LoadPage
    /\ dom' = Appended(live', columnCount)
    /\ marks' = [id \in {live'[i].id : i \in 1..Len(live')} |-> {}]
    /\ UNCHANGED <<draggedContainerId, fullscreen, session>>

\* the expand button of a container: enterFullscreen
EnterFullscreen ==
    /\ loaded /\ micro = <<>> /\ session = "none"
    /\ \E id \in FullscreenIds \cap DOMAIN marks :
        /\ id \notin fullscreen
        /\ fullscreen' = fullscreen \cup {id}
        /\ DragEvent("enterFullscreen", Arg(id, EmptyObj, <<>>))
        /\ UNCHANGED <<ver, chrome, pageVars, storeVars, regVars, queueVars,
                       draggedContainerId, marks, dom, session>>

\* the close button or Escape: exitFullscreen
ExitFullscreen ==
    /\ loaded /\ micro = <<>> /\ session = "none"
    /\ \E id \in fullscreen :
        /\ fullscreen' = fullscreen \ {id}
        /\ DragEvent("exitFullscreen", Arg(id, EmptyObj, <<>>))
        /\ UNCHANGED <<ver, chrome, pageVars, storeVars, regVars, queueVars,
                       draggedContainerId, marks, dom, session>>

\* a handleDragStart that does not look at the class fullscreen
DragStart_Always ==
    /\ loaded /\ micro = <<>> /\ session = "none" /\ hist.calls < hist.limit
    /\ \E element \in DragSources \cap DOMAIN marks :
        /\ draggedContainerId' = element /\ session' = "own"
        /\ DragEvent("dragstart", Arg(element, EmptyObj, <<>>))
        /\ UNCHANGED <<ver, chrome, pageVars, storeVars, regVars, queueVars, marks, dom, fullscreen>>

\* handleDragStart(e, element): a fullscreen element cancels the drag
DragStart ==
    /\ loaded /\ micro = <<>> /\ session = "none" /\ hist.calls < hist.limit
    /\ \E element \in DragSources \cap DOMAIN marks :
        /\ IF element \in fullscreen
           THEN UNCHANGED <<draggedContainerId, session>>
           ELSE draggedContainerId' = element /\ session' = "own"
        /\ DragEvent("dragstart", Arg(element, EmptyObj, <<>>))
        /\ UNCHANGED <<ver, chrome, pageVars, storeVars, regVars, queueVars, marks, dom, fullscreen>>

\* a handleDragEnd that keeps the dragged element and its id
DragEnd_Keeping ==
    /\ loaded /\ micro = <<>> /\ session \in {"own", "dropped"}
    /\ marks' = ClearDropIndicators(marks)
    /\ session' = "none"
    /\ DragEvent("dragend", Arg(draggedContainerId, EmptyObj, <<>>))
    /\ UNCHANGED <<ver, chrome, pageVars, storeVars, regVars, queueVars, dom, fullscreen,
                   draggedContainerId>>

\* handleDragEnd(e, element), which the browser sends to the dragged element
DragEnd ==
    /\ loaded /\ micro = <<>> /\ session \in {"own", "dropped"}
    /\ marks' = ClearDropIndicators(marks)
    /\ draggedContainerId' = NoId
    /\ session' = "none"
    /\ DragEvent("dragend", Arg(draggedContainerId, EmptyObj, <<>>))
    /\ UNCHANGED <<ver, chrome, pageVars, storeVars, regVars, queueVars, dom, fullscreen>>

\* handleDragOver(e, element) during the drag of a container
DragOver ==
    /\ loaded /\ micro = <<>> /\ session = "own"
    /\ \E element \in DOMAIN marks, clientY \in PointerYs, rect \in Rects :
        /\ marks' = IF draggedContainerId = NoId \/ draggedContainerId = element
                    THEN marks
                    ELSE HandleDragOver(marks, element, clientY, rect)
        /\ DragEvent("dragover", Arg(element, [clientY |-> clientY, rect |-> rect], <<>>))
        /\ UNCHANGED <<ver, chrome, pageVars, storeVars, regVars, queueVars,
                       draggedContainerId, dom, fullscreen, session>>

\* handleDragLeave(e, element): inside is element.contains(e.relatedTarget)
DragLeave ==
    /\ loaded /\ micro = <<>> /\ session = "own"
    /\ \E element \in DOMAIN marks, inside \in BOOLEAN :
        /\ marks' = IF inside THEN marks ELSE [marks EXCEPT ![element] = {}]
        /\ DragEvent("dragleave", Arg(element, [inside |-> inside], <<>>))
        /\ UNCHANGED <<ver, chrome, pageVars, storeVars, regVars, queueVars,
                       draggedContainerId, dom, fullscreen, session>>

\* what handleDrop does to the page, to the instances and to the store once
\* it is past its guard
Dropped(targetElement) ==
    LET insertBefore == "drop-before" \in marks[targetElement] IN
    IF ver = 1
    THEN LET targetColumnIndex == ColumnOf(dom, targetElement) - 1
             container == FindIndex(live, draggedContainerId)
         IN [dom |-> InsertInColumn(dom, draggedContainerId, targetElement, insertBefore),
             live |-> IF container # 0
                      THEN MovedTo(live, draggedContainerId, targetColumnIndex)
                      ELSE live,
             tasks |-> IF container # 0
                       THEN <<DropTask("updateContainer",
                                       Arg(draggedContainerId,
                                           [column |-> targetColumnIndex], <<>>))>>
                       ELSE <<>>]
    ELSE LET newOrder == NewOrder(dom[1], draggedContainerId, targetElement, insertBefore)
         IN [dom |-> <<ReorderDOM(dom[1], newOrder)>>,
             live |-> live,
             tasks |-> <<DropTask("reorderContainers", Arg(NoId, EmptyObj, newOrder))>>]

\* handleDrop(e, targetElement): a drop on a container
Drop ==
    /\ loaded /\ micro = <<>> /\ session \in {"none", "own"}
    /\ \E targetElement \in DOMAIN marks :
        /\ IF draggedContainerId = NoId \/ draggedContainerId = targetElement
           THEN UNCHANGED <<storeVars, regVars, queueVars, dom>>
           ELSE /\ dom' = Dropped(targetElement).dom
                /\ live' = Dropped(targetElement).live
                /\ Commit(IssueAll(Machine, Dropped(targetElement).tasks))
                /\ UNCHANGED <<clock, columnCount, loaded>>
        /\ marks' = ClearDropIndicators(marks)
        /\ session' = IF session = "own" THEN "dropped" ELSE session
        /\ DragEvent("drop", Arg(targetElement, [dragged |-> draggedContainerId], <<>>))
        /\ UNCHANGED <<ver, chrome, pageVars, draggedContainerId, fullscreen>>

\* build 1: handleColumnDrop(e, columnEl), a drop on the free part of a column
ColumnDrop ==
    /\ ver = 1 /\ loaded /\ micro = <<>> /\ session \in {"none", "own"}
    /\ \E k \in DOMAIN dom :
        /\ IF draggedContainerId = NoId
           THEN UNCHANGED <<storeVars, regVars, queueVars, dom>>
           ELSE /\ dom' = AppendToColumn(dom, draggedContainerId, k)
                /\ live' = MovedTo(live, draggedContainerId, k - 1)
                /\ Commit(IssueOp(Machine,
                                  DropTask("updateContainer",
                                           Arg(draggedContainerId, [column |-> k - 1], <<>>))))
                /\ UNCHANGED <<clock, columnCount, loaded>>
        /\ marks' = ClearDropIndicators(marks)
        /\ session' = IF session = "own" THEN "dropped" ELSE session
        /\ DragEvent("columndrop", Arg(NoId, [column |-> k - 1,
                                               dragged |-> draggedContainerId], <<>>))
        /\ UNCHANGED <<ver, chrome, pageVars, draggedContainerId, fullscreen>>

InitDrag ==
    /\ ver \in {1, 2}
    /\ chrome \in BOOLEAN
    /\ \E l \in DragLists :
        /\ local = [EmptyStore EXCEPT ![KEY_CONTAINERS] = Arr(l)]
        /\ sync = [EmptyStore EXCEPT ![KEY_CONTAINERS] = IF chrome THEN Arr(l) ELSE NoItem]
    /\ clock = 3
    /\ call = NoCall
    /\ live = <<>>
    /\ columnCount = IF ver = 1 THEN 2 ELSE 1
    /\ loaded = FALSE
    /\ micro = <<>>
    /\ macro = <<>>
    /\ hist = HistInit(MaxDrags, "never")
    /\ NoDrag
    /\ NoPage

NextDrag ==
    \/ LoadShown
    \/ EnterFullscreen
    \/ ExitFullscreen
    \/ DragStart
    \/ DragEnd
    \/ DragOver
    \/ DragLeave
    \/ Drop
    \/ ColumnDrop
    \/ RunMicro
    \/ Deliver

SpecDrag == InitDrag /\ [][NextDrag]_vars

----------------------------------------------------------------------------
(* Properties of drag and drop (SpecDrag) *)

\* the last event was a drop of the dragged container on another one
DroppedOnOther ==
    /\ call.op = "drop"
    /\ call.arg.data.dragged # NoId
    /\ call.arg.data.dragged # call.arg.id

\* the page that loadContainers and createContainer make from the stores as
\* they are now, in a registry that has no element yet
Reloaded ==
    Appended(CreateAll(<<>>, LoadContainers(World, Env("ok", FALSE, "ok", "ok"), clock).list,
                       columnCount),
             columnCount)

\* C16: in the column grid, once a drop of a container on another one has
\* been handled and the store write it started has completed, loading the
\* stored containers into an empty registry with the same number of columns
\* shows every container in the column and at the place within the column
\* where the page shows it after the drop.
C16_DropSurvivesReload ==
    (ver = 1 /\ DroppedOnOther /\ Settled) => Reloaded = dom

\* a step that handles, in the single grid, the drop of the dragged
\* container on another one
DropsInGrid ==
    /\ ver = 2
    /\ session = "own" /\ session' = "dropped"
    /\ call'.op = "drop" /\ call'.arg.id # draggedContainerId

\* the Storage call that the step has put in the queue
Issued == IF chrome THEN macro'[Len(macro')] ELSE micro'[Len(micro')]

\* C17: in the single grid, the drop of a container D on another container T
\* leaves the page with the same containers, D immediately before T when T
\* carries the insert-before mark and immediately after T otherwise, the
\* other containers in the relative order they had; and the order on the page
\* is the order handed to Storage.reorderContainers.
C17_DropPermutes ==
    [][DropsInGrid =>
        LET D == draggedContainerId
            T == call'.arg.id
        IN /\ Len(dom'[1]) = Len(dom[1])
           /\ Without(dom'[1], D) = Without(dom[1], D)
           /\ IndexOf(dom'[1], D) = IF "drop-before" \in marks[T]
                                    THEN IndexOf(dom'[1], T) - 1
                                    ELSE IndexOf(dom'[1], T) + 1
           /\ Issued.op = "reorderContainers"
           /\ Issued.arg.list = dom'[1]]_vars

\* container 2 was dropped on container 4, which carried the insert-before
\* mark: it is shown between 3 and 4
C17_Witness ==
    /\ ver = 2 /\ call.op = "drop" /\ session = "dropped"
    /\ call.arg.id = <<"container", 4>>
    /\ Len(dom) = 1
    /\ dom[1] = [i \in 1..4 |-> <<"container", <<1, 3, 2, 4>>[i]>>]

\* a step that handles the dragend of a drag that no drop has ended
EndsWithoutDrop == call'.op = "dragend" /\ session = "own" /\ session' = "none"

\* a step that handles the drop of the dragged container on itself
DropsOnItself ==
    /\ call'.op = "drop"
    /\ session = "own" /\ session' = "dropped"
    /\ call'.arg.id = draggedContainerId

\* the step changes neither the page, nor the instances and their columns,
\* nor the stores, and starts no Storage call
NothingMoved ==
    /\ dom' = dom
    /\ live' = live /\ columnCount' = columnCount
    /\ local' = local /\ sync' = sync
    /\ micro' = micro /\ macro' = macro

\* C18: a dragend that no drop preceded, and the drop of a container on
\* itself, change neither the order on the page, nor any column, nor the
\* stored list; after the dragend no element and no id is held as dragged.
C18_CancelledDragIsInert ==
    [][/\ EndsWithoutDrop => (NothingMoved /\ draggedContainerId' = NoId)
       /\ DropsOnItself => NothingMoved]_vars

\* a container was dropped on itself
C18_Witness ==
    /\ call.op = "drop" /\ session = "dropped"
    /\ call.arg.data.dragged # NoId
    /\ call.arg.id = call.arg.data.dragged

\* a drag ended that no drop preceded, and nothing is held as dragged
EndedIdle ==
    call.op = "dragend" /\ draggedContainerId = NoId /\ Settled /\ dom = Appended(live, columnCount)

\* a step that handles a dragstart on an element that is fullscreen
StartsOnFullscreen ==
    call'.op = "dragstart" /\ hist'.calls = hist.calls + 1 /\ call'.arg.id \in fullscreen

\* a step that handles a drop, on a container or on a column, right after a
\* dragstart on a fullscreen element
DropsAfterRejected ==
    /\ call.op = "dragstart" /\ call.arg.id \in fullscreen
    /\ call'.op \in {"drop", "columndrop"}

\* C19: a dragstart on a container that is fullscreen is refused: nothing is
\* held as dragged after it, and a drop that follows changes neither the
\* page, nor any column, nor the stored list.
C19_FullscreenNotDraggable ==
    [][/\ StartsOnFullscreen =>
            (draggedContainerId' = NoId /\ session' = "none" /\ NothingMoved)
       /\ DropsAfterRejected => (draggedContainerId' = NoId /\ NothingMoved)]_vars

\* the dragstart on the fullscreen container 1 was handled and nothing is
\* held as dragged
C19_Witness ==
    /\ call.op = "dragstart" /\ call.arg.id \in fullscreen
    /\ fullscreen = {<<"container", 1>>}
    /\ draggedContainerId = NoId /\ session = "none"

\* a step that handles a dragover on a container other than the dragged one
DragsOverOther ==
    /\ call'.op = "dragover"
    /\ session = "own" /\ call'.arg.id # draggedContainerId

\* a step that handles the drop of the dragged container on another one
DropsOnOther ==
    /\ call'.op = "drop"
    /\ session = "own" /\ session' = "dropped"
    /\ call'.arg.id # draggedContainerId

\* no element carries the insert-before and the insert-after mark together
NeverBothMarks == \A e \in DOMAIN marks : ~({"drop-before", "drop-after"} \subseteq marks[e])

\* C20: during the drag of a container, a dragover on another container
\* leaves on it the insert-before mark alone when the pointer's Y is strictly
\* above the middle of its box, and the insert-after mark alone when it is at
\* the middle or below, the marks of the other elements as they were; no
\* element ever carries both marks; and at the drop the dragged container
\* goes right before the target when the target carries the insert-before
\* mark, right after it otherwise.
C20_MarkFollowsPointer ==
    /\ []NeverBothMarks
    /\ [][/\ DragsOverOther =>
                LET e == call'.arg.id
                    p == call'.arg.data
                IN /\ marks'[e] = IF 2 * p.clientY < 2 * p.rect.top + p.rect.height
                                  THEN {"drop-before"} ELSE {"drop-after"}
                   /\ \A o \in DOMAIN marks \ {e} : marks'[o] = marks[o]
          /\ DropsOnOther =>
                LET T == call'.arg.id
                    col == dom'[ColumnOf(dom', T)]
                IN IndexOf(col, draggedContainerId) =
                        IF "drop-before" \in marks[T] THEN IndexOf(col, T) - 1
                        ELSE IndexOf(col, T) + 1]_vars

\* the pointer was at the middle of the box of another container, which
\* carries the insert-after mark alone
C20_Witness ==
    /\ call.op = "dragover" /\ draggedContainerId # NoId
    /\ call.arg.id # draggedContainerId
    /\ call.arg.data.clientY = 2
    /\ marks[call.arg.id] = {"drop-after"}

----------------------------------------------------------------------------
(* Settings, Modal and the update loop of build 1 in the page (SpecPage):  *)
(* App.init, then the handlers of user events, each run to its end         *)

MaxGestures == 2   \* user events handled after the page opened in SpecPage

\* Storage.getSettingsFromLocalStorage(): text that does not parse gives null
GetSettingsFromLocalStorage(ss) ==
    IF ss.local.kind = "object"
    THEN [status |-> "ok", found |-> TRUE, val |-> ss.local.val]
    ELSE [status |-> "ok", found |-> FALSE, val |-> EmptyObj]

\* Storage.getSettings(): gmode is what chrome.storage.sync.get does.  found
\* is FALSE when it resolves with null; a throw of the synced store rejects
\* the promise it returns.
GetSettings(ss, gmode) ==
    IF ~chrome \/ gmode = "lastError"
    THEN GetSettingsFromLocalStorage(ss)
    ELSE IF gmode = "throws"
         THEN [status |-> "rejected", found |-> FALSE, val |-> EmptyObj]
         ELSE IF ss.sync.kind = "object"
              THEN [status |-> "ok", found |-> TRUE, val |-> ss.sync.val]
              ELSE [status |-> "ok", found |-> FALSE, val |-> EmptyObj]

\* Storage.setSettings(settings): localStorage first, outside any try; the
\* callback of the synced store resolves whatever lastError says
SetSettings(ss, settings, lfail, smode) ==
    IF lfail
    THEN [ss |-> ss, status |-> "rejected"]
    ELSE LET ss1 == [ss EXCEPT !.local = Stored(DropUndef(settings))]
         IN IF ~chrome THEN [ss |-> ss1, status |-> "ok"]
            ELSE IF smode = "throws" THEN [ss |-> ss1, status |-> "rejected"]
            ELSE IF smode = "lastError" THEN [ss |-> ss1, status |-> "ok"]
            ELSE [ss |-> [ss1 EXCEPT !.sync = Stored(DropUndef(settings))], status |-> "ok"]

\* a Settings.init that takes the stored record in place of the defaults
SettingsInit_Wholesale(d, g) ==
    [current |-> IF g.found THEN g.val ELSE d, sharesFont |-> ~g.found]

\* Settings.init once getSettings gave g: the stored record spread over the
\* defaults, fontSize spread over the default fontSize into a new object, a
\* falsy effect replaced by the default.  (A stored fontSize is an object in
\* every input of the model, so `!this.current.fontSize` is never true.)
SettingsInit(d, g) ==
    LET merged == IF g.found THEN Spread(d, g.val) ELSE d
    IN [current |-> [merged EXCEPT
                        !.fontSize = Spread(d.fontSize, merged.fontSize),
                        !.effect = IF Falsy(merged.effect) THEN d.effect ELSE merged.effect],
        sharesFont |-> FALSE]

\* ContainerManager.tick() at second `now`: nothing unless running; else the
\* second is pushed to the display and to every instance if it is a new one,
\* and one more frame is asked for
TickAt(run, last, fr, sh, now, lv) ==
    IF ~run
    THEN [lastSecond |-> last, shown |-> sh, frames |-> fr]
    ELSE [lastSecond |-> now,
          shown |-> IF now # last
                    THEN [second |-> now, ids |-> {lv[i].id : i \in 1..Len(lv)}]
                    ELSE sh,
          frames |-> fr + 1]

\* Modal.openForCreate(): the dialog with the defaults of a new countdown
Today == "2024-06-01"
NextYear == "2025-06-01"
OpenedForCreate ==
    [open |-> TRUE, mode |-> "create", editingContainerId |-> NoId,
     containerType |-> "countdown", inputs |-> Inputs("", Today, NextYear, "", "")]

\* a to-do of a countdown
Todo(n) == [id |-> <<"todo", n>>, text |-> "a", completed |-> FALSE]

\* a stored countdown with a to-do list, and a stored image container
WithTodos(n, col) ==
    [Container(n, col) EXCEPT !.data = Spread(@, [showTodos |-> TRUE, todos |-> <<Todo(1)>>])]
Image(n, col) ==
    [Container(n, col) EXCEPT !.type = "image", !.data = [imageUrl |-> "u", fit |-> "cover"]]

\* the lists the stores hold when the page opens: one with a record whose
\* column is past the last column of the default layout, one in which two
\* records have the same id
PageLists ==
    {<<WithTodos(1, 0), Image(2, 2)>>, <<Container(1, 1), Container(1, 0), Container(2, 0)>>}

\* the settings records the stores hold when the page opens: one with a
\* theme only, one with a part of fontSize, one as saveAndApply writes it
PageSettings ==
    {[theme |-> "dark"],
     [fontSize |-> [titles |-> "large"]],
     [theme |-> "dark", effect |-> "snow", columns |-> 3,
      fontSize |-> [titles |-> "small", metadata |-> "small", countdown |-> "small"]]}

\* the environments of App.init: what the synced store does for getSettings,
\* and the environment of loadContainers
InitEnvs ==
    {x \in [sg : IF chrome THEN GetModes ELSE {"ok"}, e : Envs] :
        MayFail(Faults(x.sg, FALSE, "ok") + EnvFaults(x.e))}

\* App.init from start to end: Settings.init, the column count taken from
\* the settings, loadContainers, the create dialog when nothing was loaded,
\* and start().  A rejected getSettings or loadContainers ends it there.
AppInit ==
    /\ ~loaded
    /\ \E x \in InitEnvs :
        LET g == GetSettings(settingsStore, x.sg)
            s == SettingsInit(defaults, g)
            count == OrNum(s.current, "columns", defaults.columns)
            r == LoadContainers(World, x.e, clock)
            lv == CreateAll(<<>>, r.list, count)
            t == TickAt(TRUE, lastSecond, frames, shown, clock, lv)
            faults == Faults(x.sg, FALSE, "ok") + EnvFaults(x.e)
        IN IF g.status = "rejected"
           THEN /\ hist' = [hist EXCEPT !.faults = Failed(faults)]
                /\ call' = [NoCall EXCEPT !.op = "init", !.gmode = x.sg,
                                          !.status = "rejected", !.before = World]
                /\ UNCHANGED <<ver, chrome, dragVars, storeVars, regVars, queueVars, pageVars>>
           ELSE /\ r.newId => clock < MaxClock
                /\ current' = s.current
                /\ sharesFont' = s.sharesFont
                /\ columnCount' = count
                /\ local' = r.w.local
                /\ sync' = r.w.sync
                /\ clock' = IF r.newId THEN clock + 1 ELSE clock
                /\ loaded' = TRUE
                /\ live' = IF r.status = "ok" THEN lv ELSE <<>>
                /\ modal' = IF r.status = "ok" /\ lv = <<>> THEN OpenedForCreate ELSE modal
                /\ running' = (r.status = "ok")
                /\ lastSecond' = IF r.status = "ok" THEN t.lastSecond ELSE lastSecond
                /\ shown' = IF r.status = "ok" THEN t.shown ELSE shown
                /\ frames' = IF r.status = "ok" THEN t.frames ELSE frames
                /\ hist' = [hist EXCEPT !.faults = Failed(faults),
                                        !.localWriteFailed = @ \/ r.rep.unsaved # {}]
                /\ call' = [NoCall EXCEPT !.op = "init", !.gmode = x.e.gmode,
                                          !.smode = x.e.smode, !.lfail = x.e.lfail,
                                          !.status = r.status, !.list = r.list,
                                          !.rec = IF g.found THEN g.val ELSE EmptyObj,
                                          !.found = g.found,
                                          !.rep = r.rep, !.before = World]
                /\ UNCHANGED <<ver, chrome, dragVars, queueVars, settingsStore, defaults>>

\* a second passes on the wall clock
TimePasses ==
    /\ loaded /\ clock < MaxClock
    /\ clock' = clock + 1
    /\ UNCHANGED <<ver, chrome, dragVars, local, sync, call, regVars, queueVars, hist, pageVars>>

\* a tick that goes on whether or not the loop was stopped
Tick_Unguarded ==
    /\ frames > 0
    /\ LET t == TickAt(TRUE, lastSecond, frames - 1, shown, clock, live)
       IN /\ lastSecond' = t.lastSecond
          /\ shown' = t.shown
          /\ frames' = t.frames
    /\ UNCHANGED <<ver, chrome, dragVars, storeVars, call, regVars, queueVars, hist,
                   settingsVars, modal, running>>

\* the browser runs a callback of requestAnimationFrame: tick()
Tick ==
    /\ frames > 0
    /\ LET t == TickAt(running, lastSecond, frames - 1, shown, clock, live)
       IN /\ lastSecond' = t.lastSecond
          /\ shown' = t.shown
          /\ frames' = t.frames
    /\ UNCHANGED <<ver, chrome, dragVars, storeVars, call, regVars, queueVars, hist,
                   settingsVars, modal, running>>

\* a gesture: one more call of the history, with no failure
Gesture(op, arg) ==
    /\ hist' = [hist EXCEPT !.calls = @ + 1]
    /\ call' = [NoCall EXCEPT !.op = op, !.arg = arg, !.list = live, !.before = World]

\* ContainerManager.stop()
Stop ==
    /\ loaded /\ running /\ micro = <<>> /\ hist.calls < hist.limit
    /\ running' = FALSE
    /\ Gesture("stop", NoArg)
    /\ UNCHANGED <<ver, chrome, dragVars, storeVars, regVars, queueVars,
                   settingsVars, modal, lastSecond, frames, shown>>

\* ContainerManager.start(): running, and a tick at once
Start ==
    /\ loaded /\ ~running /\ micro = <<>> /\ hist.calls < hist.limit
    /\ running' = TRUE
    /\ LET t == TickAt(TRUE, lastSecond, frames, shown, clock, live)
       IN /\ lastSecond' = t.lastSecond
          /\ shown' = t.shown
          /\ frames' = t.frames
    /\ Gesture("start", NoArg)
    /\ UNCHANGED <<ver, chrome, dragVars, storeVars, regVars, queueVars,
                   settingsVars, modal>>

\* what the settings dialog may hold when one of its controls changes
Choices ==
    {[theme |-> "dark", effect |-> "none", columns |-> 1,
      fontSize |-> [titles |-> "large", metadata |-> "medium", countdown |-> "medium"]],
     [theme |-> "default", effect |-> "snow", columns |-> 3,
      fontSize |-> [titles |-> "medium", metadata |-> "medium", countdown |-> "medium"]]}

\* Settings.saveAndApply(): the controls are written into current (fontSize
\* in place), current is stored, and when that is done the column count goes
\* to ContainerManager.setColumnCount, whose Storage calls nothing awaits
SaveAndApply ==
    /\ loaded /\ micro = <<>> /\ hist.calls < hist.limit
    /\ \E ui \in Choices, lfail \in BOOLEAN, gmode \in GetEnv("updateContainer") :
       \E smode \in SetEnv(lfail) :
        LET cur == Spread(current, [ui EXCEPT !.fontSize = Spread(current.fontSize, @)])
            st == SetSettings(settingsStore, cur, lfail, smode)
            applies == st.status = "ok" /\ ui.columns # columnCount
            tasks == IF applies THEN ColumnTasks(live, ui.columns, gmode) ELSE <<>>
            faults == Faults(gmode, lfail, smode)
        IN /\ tasks # <<>> \/ gmode = "ok"
           /\ MayFail(faults)
           /\ current' = cur
           /\ defaults' = IF sharesFont
                          THEN [defaults EXCEPT !.fontSize = Spread(@, ui.fontSize)]
                          ELSE defaults
           /\ settingsStore' = st.ss
           /\ Commit(IssueAll(Machine, tasks))
           /\ columnCount' = IF applies THEN ui.columns ELSE columnCount
           /\ live' = IF applies THEN Replaced(live, ui.columns) ELSE live
           /\ hist' = [hist EXCEPT !.calls = @ + 1, !.faults = Failed(faults)]
           /\ call' = [NoCall EXCEPT !.op = "saveAndApply", !.arg = Arg(NoId, ui, <<>>),
                                     !.gmode = gmode, !.smode = smode, !.lfail = lfail,
                                     !.status = st.status, !.list = live, !.before = World]
           /\ UNCHANGED <<ver, chrome, dragVars, clock, loaded, sharesFont, modal, tickVars>>

\* a backup file: what JSON.parse makes of it (parses is FALSE when it
\* throws), what it has under `containers` and under `settings`
File(parses, containers, settings) ==
    [parses |-> parses, containers |-> containers, settings |-> settings]

\* the files given to the import: text that does not parse, a document
\* without `containers`, one whose `containers` is not an array, and two
\* backups, one with settings and one without
PageFiles ==
    {File(FALSE, NoItem, NoSettings),
     File(TRUE, NoItem, Stored([theme |-> "dark"])),
     File(TRUE, NotArray, Stored([theme |-> "dark"])),
     File(TRUE, Arr(<<Image(2, 1)>>), Stored([theme |-> "dark", columns |-> 3])),
     File(TRUE, Arr(<<Container(1, 2), Container(2, 2)>>), NoSettings)}

\* the page is loaded anew: every object of the script is as constructed
PageReloaded(ss) ==
    /\ settingsStore' = ss
    /\ live' = <<>>
    /\ columnCount' = 2
    /\ loaded' = FALSE
    /\ micro' = <<>>
    /\ macro' = <<>>
    /\ current' = EmptyObj
    /\ defaults' = Defaults
    /\ sharesFont' = FALSE
    /\ modal' = ClosedModal
    /\ running' = FALSE
    /\ lastSecond' = -1
    /\ frames' = 0
    /\ shown' = NoShown

\* an import that stores the settings of the file before it looks at its
\* containers
Imported_SettingsFirst(file, lfail, smode, lfail2, smode2) ==
    IF ~file.parses
    THEN [w |-> World, ss |-> settingsStore, status |-> "rejected", wrote |-> FALSE]
    ELSE LET t == IF file.settings.kind = "object"
                  THEN SetSettings(settingsStore, file.settings.val, lfail2, smode2)
                  ELSE [ss |-> settingsStore, status |-> "ok"]
         IN IF file.containers.kind # "array"
            THEN [w |-> World, ss |-> t.ss, status |-> "rejected", wrote |-> FALSE]
            ELSE [w |-> StorageSet(World, file.containers.val, lfail, smode).w,
                  ss |-> t.ss, status |-> t.status, wrote |-> TRUE]

\* the outcome of Settings.importData(file): the stores after it, and whether
\* it got as far as location.reload().  lfail and smode are what the stores
\* do for Storage.set, lfail2 and smode2 for Storage.setSettings.
Imported(file, lfail, smode, lfail2, smode2) ==
    IF ~file.parses \/ file.containers.kind # "array"
    THEN [w |-> World, ss |-> settingsStore, status |-> "rejected", wrote |-> FALSE]
    ELSE LET s == StorageSet(World, file.containers.val, lfail, smode)
             t == IF file.settings.kind = "object"
                  THEN SetSettings(settingsStore, file.settings.val, lfail2, smode2)
                  ELSE [ss |-> settingsStore, status |-> "ok"]
         IN IF s.status = "rejected"
            THEN [w |-> s.w, ss |-> settingsStore, status |-> "rejected", wrote |-> TRUE]
            ELSE [w |-> s.w, ss |-> t.ss, status |-> t.status, wrote |-> TRUE]

\* the environments of one import that the fault model allows now
ImportEnvs ==
    {x \in [lfail : BOOLEAN, smode : IF chrome THEN SetModes ELSE {"ok"},
            lfail2 : BOOLEAN, smode2 : IF chrome THEN SetModes ELSE {"ok"}] :
        MayFail(Faults("ok", x.lfail, x.smode) + Faults("ok", x.lfail2, x.smode2))}

\* Settings.importData(file), from the file chosen to the reload or the alert
ImportFile ==
    /\ loaded /\ micro = <<>> /\ macro = <<>> /\ hist.calls < hist.limit
    /\ \E file \in PageFiles, x \in ImportEnvs :
        LET r == Imported(file, x.lfail, x.smode, x.lfail2, x.smode2)
            faults == Faults("ok", x.lfail, x.smode) + Faults("ok", x.lfail2, x.smode2)
        IN /\ r.wrote \/ faults = 0
           /\ (file.settings.kind = "object" /\ r.wrote /\ ~x.lfail /\ x.smode # "throws")
                \/ Faults("ok", x.lfail2, x.smode2) = 0
           /\ local' = r.w.local
           /\ sync' = r.w.sync
           /\ hist' = [hist EXCEPT !.calls = @ + 1, !.faults = Failed(faults),
                                   !.localWriteFailed = @ \/ (r.wrote /\ x.lfail)]
           /\ call' = [NoCall EXCEPT !.op = "importData", !.arg = Arg(NoId, file, <<>>),
                                     !.smode = x.smode, !.lfail = x.lfail,
                                     !.status = r.status, !.wrote = r.wrote,
                                     !.list = live, !.before = World]
           /\ IF r.status = "ok"
              THEN PageReloaded(r.ss)
              ELSE /\ settingsStore' = r.ss
                   /\ UNCHANGED <<regVars, queueVars, current, defaults, sharesFont,
                                  modal, tickVars>>
           /\ UNCHANGED <<ver, chrome, dragVars, clock>>

InitPage ==
    /\ ver = 1
    /\ chrome \in BOOLEAN
    /\ \E l \in {NoItem} \cup {Arr(x) : x \in PageLists} :
        /\ local = [EmptyStore EXCEPT ![KEY_CONTAINERS] = l]
        /\ sync \in {[EmptyStore EXCEPT ![KEY_CONTAINERS] = x] :
                        x \in IF chrome THEN {NoItem, l} ELSE {NoItem}}
    /\ \E o \in {NoSettings, CorruptSettings} \cup {Stored(x) : x \in PageSettings} :
        settingsStore \in {[local |-> o, sync |-> x] :
                            x \in IF chrome /\ o.kind = "object"
                                  THEN {NoSettings, o} ELSE {NoSettings}}
    /\ clock = 3
    /\ call = NoCall
    /\ live = <<>>
    /\ columnCount = 2
    /\ loaded = FALSE
    /\ micro = <<>>
    /\ macro = <<>>
    /\ hist = HistInit(MaxGestures, "once")
    /\ NoDrag
    /\ current = EmptyObj
    /\ defaults = Defaults
    /\ sharesFont = FALSE
    /\ modal = ClosedModal
    /\ running = FALSE
    /\ lastSecond = -1
    /\ frames = 0
    /\ shown = NoShown

NextPage ==
    \/ AppInit
    \/ TimePasses
    \/ Tick
    \/ Stop
    \/ Start
    \/ SaveAndApply
    \/ ImportFile
    \/ RunMicro
    \/ Deliver

SpecPage == InitPage /\ [][NextPage]_vars


----------------------------------------------------------------------------
(* SpecModal: the container dialog of build 1 in the page: App.init, then   *)
(* the dialog opened, filled in and saved, each handler run to its end      *)

MaxSaves == 1      \* saves of the dialog in SpecModal

\* TimeCalc.parseDate, for the dates the inputs may hold: the day it names
ParseDate(s) ==
    CASE s = "2024-01-01" -> 1
      [] s = "2024-01-15" -> 15
      [] s = Today -> 153
      [] s = NextYear -> 518
      [] OTHER -> 0

\* Modal.openForEdit(container): the dialog with the inputs of the
\* container's type filled from its data; the others keep what they held
OpenedForEdit(m, container) ==
    LET data == container.data
        type == OrStr(data, "type", "countdown")
        typeData == IF Has(data, "data") THEN data.data ELSE EmptyObj
        common == [m.inputs EXCEPT !.title = OrStr(data, "title", ""),
                                   !.description = OrStr(data, "description", "")]
    IN [open |-> TRUE, mode |-> "edit", editingContainerId |-> container.id,
        containerType |-> type,
        inputs |->
            CASE type = "countdown" ->
                    [common EXCEPT !.startDate = OrStr(typeData, "startDate", ""),
                                   !.targetDate = OrStr(typeData, "targetDate", ""),
                                   !.showTodos = IF Has(typeData, "showTodos")
                                                 THEN typeData.showTodos ELSE TRUE]
              [] type = "image" ->
                    [common EXCEPT !.imageUrl = OrStr(typeData, "imageUrl", ""),
                                   !.fit = OrStr(typeData, "fit", "cover")]
              [] type = "text" ->
                    [common EXCEPT !.content = OrStr(typeData, "content", ""),
                                   !.fontSize = OrStr(typeData, "fontSize", "medium"),
                                   !.alignment = OrStr(typeData, "alignment", "center")]
              [] OTHER -> common]

\* save(): the checks of the countdown case; no other case has one
Refused(m) ==
    /\ m.containerType = "countdown"
    /\ \/ Falsy(m.inputs.startDate)
       \/ Falsy(m.inputs.targetDate)
       \/ ParseDate(m.inputs.targetDate) <= ParseDate(m.inputs.startDate)

\* a save that builds the countdown's payload from the inputs alone
TypeData_Fresh(m, lv) ==
    CASE m.containerType = "countdown" ->
            [startDate |-> m.inputs.startDate, targetDate |-> m.inputs.targetDate,
             showTodos |-> m.inputs.showTodos]
      [] m.containerType = "image" ->
            [imageUrl |-> m.inputs.imageUrl, fit |-> OrStr(m.inputs, "fit", "cover")]
      [] m.containerType = "text" ->
            [content |-> m.inputs.content,
             fontSize |-> OrStr(m.inputs, "fontSize", "medium"),
             alignment |-> OrStr(m.inputs, "alignment", "center")]
      [] OTHER -> EmptyObj

\* save(): the payload gathered for the type; a countdown that is edited
\* keeps the to-do list of its live instance
TypeData(m, lv) ==
    CASE m.containerType = "countdown" ->
            LET index == FindIndex(lv, m.editingContainerId)
                fresh == [startDate |-> m.inputs.startDate,
                          targetDate |-> m.inputs.targetDate,
                          showTodos |-> m.inputs.showTodos]
            IN IF /\ m.mode = "edit" /\ m.editingContainerId # NoId /\ index # 0
                  /\ Has(lv[index].data, "data") /\ Has(lv[index].data.data, "todos")
               THEN Spread(fresh, [todos |-> lv[index].data.data.todos])
               ELSE fresh
      [] m.containerType = "image" ->
            [imageUrl |-> m.inputs.imageUrl, fit |-> OrStr(m.inputs, "fit", "cover")]
      [] m.containerType = "text" ->
            [content |-> m.inputs.content,
             fontSize |-> OrStr(m.inputs, "fontSize", "medium"),
             alignment |-> OrStr(m.inputs, "alignment", "center")]
      [] OTHER -> EmptyObj

\* save(): the object handed to ContainerManager
ContainerData(m, lv) ==
    [type |-> m.containerType, title |-> m.inputs.title,
     description |-> m.inputs.description, data |-> TypeData(m, lv)]

\* one Storage operation run to its end in world w
RunOp(w, op, arg, e, now) ==
    LET g == StorageGet(w, e.gmode, FALSE, "ok")
        r == StorageOp(g.w, op, arg, g.containers, e.lfail, e.smode, now)
    IN IF g.status = "ok"
       THEN [w |-> r.w, status |-> r.status, found |-> r.found, wrote |-> r.wrote,
             rec |-> r.rec, list |-> r.list]
       ELSE [w |-> w, status |-> "rejected", found |-> FALSE, wrote |-> FALSE,
             rec |-> EmptyObj, list |-> <<>>]

\* what the user may type into the dialog: title, start date, target date
\* and image source
Typings ==
    {<<"e", "2024-01-01", "2024-01-15", "v">>,
     <<"e", "2024-01-01", "", "">>,
     <<"e", "2024-01-15", "2024-01-15", "">>,
     <<"e", "2024-01-15", "2024-01-01", "">>}

\* the add button: Modal.openForCreate()
OpenForCreate ==
    /\ loaded /\ ~modal.open /\ hist.calls < hist.limit
    /\ modal' = OpenedForCreate
    /\ UNCHANGED <<ver, chrome, dragVars, storeVars, call, regVars, queueVars, hist,
                   settingsVars, tickVars>>

\* the edit button of a container: Modal.openForEdit(container)
OpenForEdit ==
    /\ loaded /\ ~modal.open /\ hist.calls < hist.limit
    /\ \E i \in 1..Len(live) : modal' = OpenedForEdit(modal, live[i])
    /\ UNCHANGED <<ver, chrome, dragVars, storeVars, call, regVars, queueVars, hist,
                   settingsVars, tickVars>>

\* the type selector changes (it is disabled while a container is edited)
SelectType ==
    /\ modal.open /\ modal.mode = "create"
    /\ \E t \in {"countdown", "image", "text"} : modal' = [modal EXCEPT !.containerType = t]
    /\ UNCHANGED <<ver, chrome, dragVars, storeVars, call, regVars, queueVars, hist,
                   settingsVars, tickVars>>

\* the user types into the inputs
Fill ==
    /\ modal.open
    /\ \E t \in Typings :
        modal' = [modal EXCEPT !.inputs.title = t[1], !.inputs.startDate = t[2],
                               !.inputs.targetDate = t[3], !.inputs.imageUrl = t[4]]
    /\ UNCHANGED <<ver, chrome, dragVars, storeVars, call, regVars, queueVars, hist,
                   settingsVars, tickVars>>

\* the cancel button: Modal.close()
Cancel ==
    /\ modal.open /\ live # <<>>
    /\ modal' = [modal EXCEPT !.open = FALSE]
    /\ UNCHANGED <<ver, chrome, dragVars, storeVars, call, regVars, queueVars, hist,
                   settingsVars, tickVars>>

\* the save button: Modal.save(), to the close of the dialog or the alert
Save ==
    /\ modal.open /\ hist.calls < hist.limit
    /\ \E e \in {x \in Envs : x.rmode = "ok"} :
        LET containerData == ContainerData(modal, live)
            index == FindIndex(live, modal.editingContainerId)
            draft == Spread(containerData, [column |-> LeastPopulated(live, columnCount)])
            arg == IF modal.mode = "create" THEN Arg(NoId, draft, <<>>)
                   ELSE Arg(modal.editingContainerId, containerData, <<>>)
            calls == ~Refused(modal) /\ (modal.mode = "create" \/ index # 0)
            r == RunOp(World, IF modal.mode = "create" THEN "addContainer"
                              ELSE "updateContainer", arg, e, clock)
            done == calls /\ r.status = "ok"
        IN /\ calls \/ EnvFaults(e) = 0
           /\ (calls /\ r.wrote) \/ Faults("ok", e.lfail, e.smode) = 0
           /\ (calls /\ modal.mode = "create") => clock < MaxClock
           /\ local' = IF calls THEN r.w.local ELSE local
           /\ sync' = IF calls THEN r.w.sync ELSE sync
           /\ clock' = IF done /\ modal.mode = "create" THEN clock + 1 ELSE clock
           /\ live' = IF ~done THEN live
                      ELSE IF modal.mode = "create"
                           THEN CreateContainer(live, r.rec, columnCount)
                           ELSE [live EXCEPT ![index].data =
                                        InitCountdownData(Spread(@, containerData))]
           /\ modal' = IF Refused(modal) \/ (calls /\ r.status # "ok")
                       THEN modal ELSE [modal EXCEPT !.open = FALSE]
           /\ hist' = [hist EXCEPT !.calls = @ + 1, !.faults = Failed(EnvFaults(e)),
                                   !.localWriteFailed = @ \/ (calls /\ r.wrote /\ e.lfail)]
           /\ call' = [NoCall EXCEPT !.op = "save", !.arg = arg, !.gmode = e.gmode,
                                     !.smode = e.smode, !.lfail = e.lfail,
                                     !.status = IF Refused(modal) THEN "refused"
                                                ELSE IF calls THEN r.status ELSE "ok",
                                     !.wrote = calls /\ r.wrote,
                                     !.rec = IF done THEN r.rec ELSE EmptyObj,
                                     !.list = live, !.before = World]
           /\ UNCHANGED <<ver, chrome, dragVars, columnCount, loaded, queueVars,
                          settingsVars, tickVars>>

\* the lists the stores hold when the page opens: a countdown with a to-do
\* list and an image container, or two countdowns without a to-do list
ModalLists ==
    {<<WithTodos(1, 0), Image(2, 1)>>, <<Container(1, 0), Container(2, 1)>>}

InitModal ==
    /\ ver = 1
    /\ chrome \in BOOLEAN
    /\ \E l \in {NoItem} \cup {Arr(x) : x \in ModalLists} :
        /\ local = [EmptyStore EXCEPT ![KEY_CONTAINERS] = l]
        /\ sync \in {[EmptyStore EXCEPT ![KEY_CONTAINERS] = x] :
                        x \in IF chrome THEN {NoItem, l} ELSE {NoItem}}
    /\ clock = 3
    /\ call = NoCall
    /\ live = <<>>
    /\ columnCount = 2
    /\ loaded = FALSE
    /\ micro = <<>>
    /\ macro = <<>>
    /\ hist = HistInit(MaxSaves, "once")
    /\ NoDrag
    /\ NoPage

NextModal ==
    \/ AppInit
    \/ OpenForCreate
    \/ OpenForEdit
    \/ SelectType
    \/ Fill
    \/ Cancel
    \/ Save

SpecModal == InitModal /\ [][NextModal]_vars

----------------------------------------------------------------------------
(* Properties of the page (SpecPage) *)

\* App.init has just run loadContainers to its end
LoadedNow == ~loaded /\ loaded' /\ call'.op = "init" /\ call'.status = "ok"

\* the last record of list with this id
LastWith(list, id) ==
    list[CHOOSE i \in 1..Len(list) :
            list[i].id = id /\ \A j \in (i + 1)..Len(list) : list[j].id # id]

\* Math.min(column || 0, count - 1)
ShownColumn(rec, count) ==
    IF OrNum(rec, "column", 0) < count - 1 THEN OrNum(rec, "column", 0) ELSE count - 1

C29_StoppedTickIsIdle ==
    [][(loaded /\ loaded' /\ ~running /\ ~running') =>
        /\ shown' = shown
        /\ lastSecond' = lastSecond
        /\ frames' \in {frames, frames - 1}]_vars

\* the loop was stopped, a second has passed since the last push, and the
\* frame that was asked for has run without asking for another
C29_Witness ==
    /\ loaded /\ call.op = "stop" /\ ~running
    /\ frames = 0 /\ shown.second >= 0 /\ clock > shown.second

\* Settings.init has just run to its end
SettingsLoaded == ~loaded /\ loaded' /\ call'.op = "init"

\* the value Settings.init is to give field k, and font size f, when the
\* stored record is saved (without a field when getSettings gave null)
MergedField(saved, k) == IF Has(saved, k) THEN saved[k] ELSE Defaults[k]
MergedFont(saved, f) ==
    IF Has(saved, "fontSize") /\ Has(saved.fontSize, f)
    THEN saved.fontSize[f] ELSE Defaults.fontSize[f]

ImportsInvalid ==
    /\ call'.op = "importData" /\ hist'.calls = hist.calls + 1
    /\ call'.arg.data.parses /\ call'.arg.data.containers.kind # "array"

\* C26: Settings.importData on a document whose `containers` field is missing
\* or not an array makes no store write: a following Storage.get() and
\* Storage.getSettings() return exactly what they returned before the
\* import, whatever the synced store does for them.
C26_InvalidImportWritesNothing ==
    [][ImportsInvalid =>
        /\ local' = local /\ sync' = sync /\ settingsStore' = settingsStore
        /\ \A gmode \in GetModes :
            /\ StorageGet([local |-> local', sync |-> sync'], gmode, FALSE, "ok")
                    = StorageGet(World, gmode, FALSE, "ok")
            /\ GetSettings(settingsStore', gmode) = GetSettings(settingsStore, gmode)]_vars

\* a document with settings and with `containers` that is not an array was
\* refused: the page is still loaded and the stores do not hold its settings
C26_Witness ==
    /\ loaded /\ call.op = "importData" /\ call.status = "rejected" /\ ~call.wrote
    /\ call.arg.data.containers = NotArray
    /\ call.arg.data.settings.kind = "object"
    /\ settingsStore.local # call.arg.data.settings
    /\ settingsStore.sync # call.arg.data.settings

----------------------------------------------------------------------------
(* Properties of the container dialog (SpecModal) *)

\* the save button has just been handled
SaveStep == call'.op = "save" /\ hist'.calls = hist.calls + 1

\* the inputs the dialog is to refuse: a countdown without a start or a
\* target date or whose target is not after its start, an image without a
\* source
InvalidInputs(m) ==
    \/ /\ m.containerType = "countdown"
       /\ \/ m.inputs.startDate = ""
          \/ m.inputs.targetDate = ""
          \/ ParseDate(m.inputs.targetDate) <= ParseDate(m.inputs.startDate)
    \/ m.containerType = "image" /\ m.inputs.imageUrl = ""

\* C27: Modal.save with a missing start or target date, with a target date
\* not strictly after the start date, or (image type) with no image source
\* is rejected before any persistence attempt: no store write is issued and
\* no live container changes, in create mode and in edit mode.
C27_InvalidSaveRejected ==
    [][(SaveStep /\ InvalidInputs(modal)) =>
            local' = local /\ sync' = sync /\ live' = live]_vars

\* the fields a save of an edit is to leave alone
FrameKeys == {"type", "id", "createdAt", "height", "column"}
KeepsFrame(old, new) ==
    \A k \in FrameKeys : Has(old, k) = Has(new, k) /\ (Has(old, k) => old[k] = new[k])

\* the to-do list of a record, empty when it has none
TodosOf(rec) ==
    IF Has(rec, "data") /\ Has(rec.data, "todos") THEN rec.data.todos ELSE <<>>

\* every record of old with the id is at its place in new with the fields
\* the dialog does not edit as they were
EditKeeps(old, new, id) ==
    \A i \in 1..Len(old) :
        old[i].id = id =>
            /\ i <= Len(new)
            /\ new[i].id = id
            /\ KeepsFrame(old[i], new[i])
            /\ (OrStr(old[i], "type", "countdown") = "countdown") =>
                    TodosOf(new[i]) = TodosOf(old[i])

\* C28: saving an edit of an existing container through the modal never
\* changes the container's type, id, createdAt, height or column, and for a
\* countdown keeps its to-do list, in both the live instance and the stored
\* record.
C28_EditKeepsFrame ==
    [][(SaveStep /\ modal.mode = "edit") =>
        /\ EditKeeps(LiveData(live), LiveData(live'), modal.editingContainerId)
        /\ EditKeeps(StoredList(local), StoredList(local'), modal.editingContainerId)
        /\ EditKeeps(StoredList(sync), StoredList(sync'), modal.editingContainerId)]_vars

\* the countdown with a to-do list was given a new title in the dialog: the
\* live instance and the stored record have the title and the to-do list
C28_Witness ==
    /\ call.op = "save" /\ call.status = "ok" /\ call.wrote
    /\ call.arg.id = <<"container", 1>>
    /\ Len(live) = 2 /\ live[1].data.title = "e" /\ live[1].data.data.todos = <<Todo(1)>>
    /\ live[1].data.height = 2 /\ live[1].data.column = 0
    /\ StoredList(local)[1].title = "e"
    /\ StoredList(local)[1].data.todos = <<Todo(1)>>


----------------------------------------------------------------------------
(* TimeCalc: the calculations on dates.  A Date is an instant on a whole    *)
(* hour, counted in hours from 1 January of EpochYear, 00:00 local time, in *)
(* a zone that keeps one offset all year; for getRemainingTime it is an     *)
(* instant counted in milliseconds.                                         *)

MaxYears == 2      \* calendar years after EpochYear that a Date may fall in
MaxWeeks == 1      \* whole weeks that a target may lie ahead of now

EpochYear == 2023  \* the year the calendar of the model begins with
HoursPerDay == 24
HoursPerWeek == 7 * 24
MS_PER_SECOND == 1000

\* Math.ceil(a / b) and Math.floor(a / b) for b > 0
Ceil(a, b) == -((-a) \div b)
Floor(a, b) == a \div b

LeapYear(y) == y % 4 = 0 /\ (y % 100 # 0 \/ y % 400 = 0)
DaysIn(y) == IF LeapYear(y) THEN 366 ELSE 365

\* new Date(year, 0, 1)
RECURSIVE Jan1(_)
Jan1(year) ==
    IF year <= EpochYear THEN 0
    ELSE Jan1(year - 1) + DaysIn(year - 1) * HoursPerDay

\* new Date(year, 11, 31)
Dec31(year) == Jan1(year + 1) - HoursPerDay

\* date.getFullYear()
GetFullYear(date) ==
    CHOOSE y \in EpochYear..(EpochYear + MaxYears + 1) : Jan1(y) <= date /\ date < Jan1(y + 1)

GetWeeksBetween(startDate, endDate) == Ceil(endDate - startDate, HoursPerWeek)

Max(a, b) == IF a >= b THEN a ELSE b

\* the bucket of one year of the loop of getYearRanges
YearRange(year, startYear, endYear, startDate, endDate) ==
    LET yearStart == IF year = startYear THEN startDate ELSE Jan1(year)
        yearEnd == IF year = endYear THEN endDate ELSE Dec31(year)
        weeksInYear == GetWeeksBetween(yearStart, yearEnd)
    IN [year |-> year, weeks |-> Max(1, weeksInYear), startDate |-> yearStart]

GetYearRanges(startDate, endDate) ==
    LET startYear == GetFullYear(startDate)
        endYear == GetFullYear(endDate)
    IN [i \in 1..Max(0, endYear - startYear + 1) |->
            YearRange(startYear + i - 1, startYear, endYear, startDate, endDate)]

NoTime == [weeks |-> 0, days |-> 0, hours |-> 0, minutes |-> 0, seconds |-> 0]

\* a breakdown whose days are all the days that remain
GetRemainingTime_Totals(targetDate, now) ==
    LET diffMs == targetDate - now
    IN IF diffMs <= 0 THEN NoTime
       ELSE [seconds |-> Floor(diffMs, 1000) % 60,
             minutes |-> Floor(diffMs, 1000 * 60) % 60,
             hours |-> Floor(diffMs, 1000 * 60 * 60) % 24,
             days |-> Floor(diffMs, 1000 * 60 * 60 * 24),
             weeks |-> Floor(diffMs, 1000 * 60 * 60 * 24 * 7)]

GetRemainingTime(targetDate, now) ==
    LET diffMs == targetDate - now
    IN IF diffMs <= 0 THEN NoTime
       ELSE [seconds |-> Floor(diffMs, 1000) % 60,
             minutes |-> Floor(diffMs, 1000 * 60) % 60,
             hours |-> Floor(diffMs, 1000 * 60 * 60) % 24,
             days |-> Floor(diffMs, 1000 * 60 * 60 * 24) % 7,
             weeks |-> Floor(diffMs, 1000 * 60 * 60 * 24 * 7)]

----------------------------------------------------------------------------
(* SpecTime: TimeCalc applied to dates drawn from the calendar              *)

\* the dates of the calendar that the calls are made with: the first and the
\* last days of a year and the days around its first week, at midnight and
\* at noon
CalendarDates ==
    {Jan1(y) + d * HoursPerDay + h :
        y \in EpochYear..(EpochYear + MaxYears), d \in {0, 1, 6, 7, 8, 363, 364}, h \in {0, 12}}

\* the milliseconds by which a target is ahead of now (behind it, when
\* negative): each place of the breakdown at its least and at its greatest
Aheads ==
    {((((w * 7 + d) * 24 + h) * 60 + m) * 60 + s) * MS_PER_SECOND + ms :
        w \in 0..MaxWeeks, d \in {0, 6}, h \in {0, 23}, m \in {0, 59}, s \in {0, 59},
        ms \in {0, 999}} \cup {-1, -MS_PER_SECOND, -7 * 24 * 60 * 60 * MS_PER_SECOND}

\* a call of TimeCalc not yet made
TimeCall(unit, a, b) ==
    [op |-> "none", unit |-> unit, a |-> a, b |-> b, ranges |-> <<>>, time |-> NoTime]

CallGetYearRanges ==
    /\ call.op = "none" /\ call.unit = "hour"
    /\ call' = [call EXCEPT !.op = "getYearRanges", !.ranges = GetYearRanges(call.a, call.b)]
    /\ UNCHANGED <<ver, chrome, storeVars, pageVars, dragVars, regVars, queueVars, hist>>

CallGetRemainingTime ==
    /\ call.op = "none" /\ call.unit = "ms"
    /\ call' = [call EXCEPT !.op = "getRemainingTime", !.time = GetRemainingTime(call.a, call.b)]
    /\ UNCHANGED <<ver, chrome, storeVars, pageVars, dragVars, regVars, queueVars, hist>>

InitTime ==
    /\ ver = 1
    /\ chrome = FALSE
    /\ local = EmptyStore
    /\ sync = EmptyStore
    /\ clock = 0
    /\ \/ \E startDate \in CalendarDates, endDate \in CalendarDates :
            call = TimeCall("hour", startDate, endDate)
       \/ \E now \in {0, 1, 999}, ahead \in Aheads :
            call = TimeCall("ms", now + ahead, now)
    /\ live = <<>>
    /\ columnCount = 2
    /\ loaded = FALSE
    /\ micro = <<>>
    /\ macro = <<>>
    /\ hist = HistInit(1, "never")
    /\ NoDrag
    /\ NoPage

NextTime == CallGetYearRanges \/ CallGetRemainingTime

SpecTime == InitTime /\ [][NextTime]_vars

----------------------------------------------------------------------------
(* Properties of TimeCalc (SpecTime) *)

RECURSIVE SumWeeks(_)
SumWeeks(ranges) ==
    IF ranges = <<>> THEN 0 ELSE ranges[1].weeks + SumWeeks(Tail(ranges))

\* C31: for all start and end with end > start, the weeks of the buckets of
\* getYearRanges(start, end) add up to at least getWeeksBetween(start, end),
\* and every bucket has at least one week.
C31_YearRangesCover ==
    (call.op = "getYearRanges" /\ call.b > call.a) =>
        /\ SumWeeks(call.ranges) >= GetWeeksBetween(call.a, call.b)
        /\ \A i \in DOMAIN call.ranges : call.ranges[i].weeks >= 1

Total(t) == (((t.weeks * 7 + t.days) * 24 + t.hours) * 60 + t.minutes) * 60 + t.seconds

\* C32: getRemainingTime(target, now) is all zeros when target <= now, and
\* otherwise the breakdown with days < 7, hours < 24, minutes < 60 and
\* seconds < 60, none negative, whose total is floor((target - now) / 1000).
C32_RemainingIsMixedRadix ==
    call.op = "getRemainingTime" =>
        IF call.a <= call.b
        THEN call.time = NoTime
        ELSE /\ call.time.weeks >= 0
             /\ call.time.days \in 0..6
             /\ call.time.hours \in 0..23
             /\ call.time.minutes \in 0..59
             /\ call.time.seconds \in 0..59
             /\ Total(call.time) = Floor(call.a - call.b, MS_PER_SECOND)

C32_Witness ==
    /\ call.op = "getRemainingTime"
    /\ call.a > call.b
    /\ call.time.weeks >= 1 /\ call.time.days = 6 /\ call.time.hours = 23
    /\ (call.a - call.b) % MS_PER_SECOND # 0


----------------------------------------------------------------------------
(* SpecLive: the instances of build 1 in the page: loadContainers, then the *)
(* height buttons, the to-do list and the close button of the instances,    *)
(* with chrome callbacks and promise continuations in between               *)

MaxActs == 2       \* user events handled in SpecLive

Min(a, b) == IF a <= b THEN a ELSE b

\* this.data.data || {}
TypeDataOf(c) == IF Has(c.data, "data") THEN c.data.data ELSE EmptyObj

\* CountdownContainer.todos
TodosIn(c) == IF Has(TypeDataOf(c), "todos") THEN TypeDataOf(c).todos ELSE <<>>

\* the object { data: this.data.data } that saveTodos hands to the store is
\* read when the store writes: the calls of saveTodos for this instance that
\* have not written yet see the list as it is now
Aliased(queue, id, typeData) ==
    [j \in 1..Len(queue) |->
        IF queue[j].caller = "saveTodos" /\ queue[j].arg.id = id
        THEN [queue[j] EXCEPT !.arg.data = [data |-> typeData]]
        ELSE queue[j]]

\* a height button that steps past the last height
AdjustHeight_Unclamped ==
    /\ loaded /\ micro = <<>> /\ hist.calls < hist.limit
    /\ \E i \in 1..Len(live), delta \in {1, -1}, gmode \in GetEnv("updateContainer") :
        LET currentHeight == OrNum(live[i].data, "height", 2)
            newHeight == currentHeight + delta
            arg == Arg(live[i].id, [height |-> newHeight], <<>>)
        IN /\ live' = [live EXCEPT ![i].data = Spread(@, [height |-> newHeight])]
           /\ Commit(IssueOp(Machine, Task("adjustHeight", "updateContainer", arg, gmode)))
           /\ Event("adjustHeight", Arg(live[i].id, [delta |-> delta], <<>>), gmode, TRUE)
           /\ UNCHANGED <<ver, chrome, pageVars, dragVars, clock, columnCount, loaded>>

\* Container.adjustHeight(delta), up to its await
AdjustHeight ==
    /\ loaded /\ micro = <<>> /\ hist.calls < hist.limit
    /\ \E i \in 1..Len(live), delta \in {1, -1}, gmode \in GetEnv("updateContainer") :
        LET currentHeight == OrNum(live[i].data, "height", 2)
            newHeight == Max(1, Min(5, currentHeight + delta))
            arg == Arg(live[i].id, [height |-> newHeight], <<>>)
            changed == newHeight # currentHeight
        IN /\ live' = IF changed
                      THEN [live EXCEPT ![i].data = Spread(@, [height |-> newHeight])]
                      ELSE live
           /\ Commit(IF changed
                     THEN IssueOp(Machine, Task("adjustHeight", "updateContainer", arg, gmode))
                     ELSE Machine)
           /\ Event("adjustHeight", Arg(live[i].id, [delta |-> delta], <<>>), gmode, changed)
           /\ UNCHANGED <<ver, chrome, pageVars, dragVars, clock, columnCount, loaded>>

\* the list of the instance has been changed to `todos`: saveTodos(), up to
\* its await
SaveTodos(i, todos, op, todo, now) ==
    \E gmode \in GetEnv("updateContainer") :
        LET typeData == Spread(TypeDataOf(live[i]), [todos |-> todos])
            arg == Arg(live[i].id, [data |-> typeData], <<>>)
            m == [Machine EXCEPT !.micro = Aliased(@, live[i].id, typeData),
                                 !.macro = Aliased(@, live[i].id, typeData)]
        IN /\ live' = [live EXCEPT ![i].data = Spread(@, [data |-> typeData])]
           /\ Commit(IssueOp(m, Task("saveTodos", "updateContainer", arg, gmode)))
           /\ Event(op, Arg(live[i].id, [todo |-> todo], <<>>), gmode, TRUE)
           /\ clock' = now
           /\ UNCHANGED <<ver, chrome, pageVars, dragVars, columnCount, loaded>>

\* a handler of the to-do list that does nothing
NoTodoChange(i, op, todo) ==
    /\ live' = live
    /\ Commit(Machine)
    /\ Event(op, Arg(live[i].id, [todo |-> todo], <<>>), "ok", FALSE)
    /\ UNCHANGED <<ver, chrome, pageVars, dragVars, clock, columnCount, loaded>>

\* the ids of to-dos that the handlers are called with: one that the list
\* the page opens with has, and one that no list has
TodoIds == {<<"todo", 1>>, <<"todo", 0>>}

\* the instances with a to-do list
Countdowns == {i \in 1..Len(live) : ClassOf(live[i].data) = "countdown"}

\* CountdownContainer.addTodo(text)
AddTodo ==
    /\ loaded /\ micro = <<>> /\ hist.calls < hist.limit
    /\ clock < MaxClock
    /\ \E i \in Countdowns :
        LET todo == [id |-> <<"todo", clock>>, text |-> "b", completed |-> FALSE]
        IN SaveTodos(i, Append(TodosIn(live[i]), todo), "addTodo", todo.id, clock + 1)

\* CountdownContainer.toggleTodo(id)
ToggleTodo ==
    /\ loaded /\ micro = <<>> /\ hist.calls < hist.limit
    /\ \E i \in Countdowns, id \in TodoIds :
        LET todos == TodosIn(live[i])
            k == FindIndex(todos, id)
        IN IF k # 0
           THEN SaveTodos(i, [todos EXCEPT ![k].completed = ~@], "toggleTodo", id, clock)
           ELSE NoTodoChange(i, "toggleTodo", id)

\* CountdownContainer.removeTodo(id)
RemoveTodo ==
    /\ loaded /\ micro = <<>> /\ hist.calls < hist.limit
    /\ \E i \in Countdowns, id \in TodoIds :
        LET todos == TodosIn(live[i])
            index == FindIndex(todos, id)
        IN IF index # 0
           THEN SaveTodos(i, SubSeq(todos, 1, index - 1) \o SubSeq(todos, index + 1, Len(todos)),
                          "removeTodo", id, clock)
           ELSE NoTodoChange(i, "removeTodo", id)

\* the list the stores hold when the page opens: a countdown with a to-do
\* and a countdown of the greatest height that has no list yet
LiveList == <<WithTodos(1, 0), [Container(2, 1) EXCEPT !.height = 5]>>

InitLive ==
    /\ ver = 1
    /\ chrome \in BOOLEAN
    /\ local = [EmptyStore EXCEPT ![KEY_CONTAINERS] = Arr(LiveList)]
    /\ sync \in {[EmptyStore EXCEPT ![KEY_CONTAINERS] = s] :
                    s \in IF chrome THEN {NoItem, Arr(LiveList)} ELSE {NoItem}}
    /\ clock = 3
    /\ call = NoCall
    /\ live = <<>>
    /\ columnCount = 2
    /\ loaded = FALSE
    /\ micro = <<>>
    /\ macro = <<>>
    /\ hist = HistInit(MaxActs, "once")
    /\ NoDrag
    /\ NoPage

NextLive ==
    \/ Load
    \/ AdjustHeight
    \/ AddTodo
    \/ ToggleTodo
    \/ RemoveTodo
    \/ ManagerDeleteContainer
    \/ RunMicro
    \/ Deliver

SpecLive == InitLive /\ [][NextLive]_vars


----------------------------------------------------------------------------
(* Properties of the instances (SpecLive) *)

\* a step that handles a click on a height button
AdjustsHeight == call'.op = "adjustHeight" /\ hist'.calls = hist.calls + 1

\* the height an instance shows
HeightOf(c) == OrNum(c.data, "height", 2)

\* the queues hold what they held and one Storage.updateContainer(id, data)
\* more, which nothing else has touched yet
OneMoreUpdate(id, data) ==
    LET before == InFlight(micro, macro)
        after == InFlight(micro', macro')
    IN /\ Len(after) = Len(before) + 1
       /\ \E j \in 1..Len(after) :
            /\ after[j].op = "updateContainer"
            /\ after[j].arg.id = id
            /\ after[j].arg.data = data
            /\ after[j].kind \in {"getcb", "afterGet"}
            /\ \A k \in 1..Len(before) :
                    before[k].caller = after[IF k < j THEN k ELSE k + 1].caller

\* C38: adjustHeight(delta) with delta +1 or -1 sets the height of the live
\* instance to clamp(height + delta, 1, 5) and issues one store update with
\* that height; at the bound in the direction asked for, the instance is
\* unchanged and no store write is issued; and the height of every instance
\* stays in [1,5].
C38_HeightStepsWithinBounds ==
    /\ [](\A i \in 1..Len(live) : HeightOf(live[i]) \in 1..5)
    /\ [][AdjustsHeight =>
            LET id == call'.arg.id
                i == FindIndex(live, id)
                want == Clamped(HeightOf(live[i]) + call'.arg.data.delta)
            IN /\ Ids(live') = Ids(live)
               /\ HeightOf(live'[i]) = want
               /\ want = HeightOf(live[i]) =>
                    /\ live' = live
                    /\ micro' = micro /\ macro' = macro
                    /\ local' = local /\ sync' = sync
               /\ (want # HeightOf(live[i]) /\ call'.gmode = "ok") =>
                    OneMoreUpdate(id, [height |-> want])]_vars

\* a height button was pressed at the bound, after another press had taken
\* the instance there
C38_Witness ==
    /\ call.op = "adjustHeight" /\ hist.calls = 2
    /\ call.arg.data.delta = -1
    /\ \E i \in 1..Len(live) :
        /\ live[i].id = call.arg.id
        /\ HeightOf(live[i]) = 1
        /\ i <= Len(call.list) /\ HeightOf(call.list[i]) = 1


\* a step that handles addTodo, toggleTodo or removeTodo
TodoStep(op) == call'.op = op /\ hist'.calls = hist.calls + 1

\* the list `new` is what the handler makes of the list `old`
TodoChanged(op, todo, old, new) ==
    LET k == FindIndex(old, todo)
    IN CASE op = "addTodo" ->
                new = Append(old, [id |-> todo, text |-> "b", completed |-> FALSE])
         [] op = "toggleTodo" ->
                new = [old EXCEPT ![k].completed = ~old[k].completed]
         [] op = "removeTodo" ->
                new = [j \in 1..(Len(old) - 1) |-> IF j < k THEN old[j] ELSE old[j + 1]]

\* every handler of the to-do list that changes the list issues exactly one
\* Storage.updateContainer for its instance, with the payload of the instance;
\* toggle and remove of an id that the list does not have change nothing and
\* issue nothing; a toggle inverts the flag of the to-do, so that two restore it
TodoWritesOnce ==
    \A op \in {"addTodo", "toggleTodo", "removeTodo"} :
        TodoStep(op) =>
            LET id == call'.arg.id
                i == FindIndex(live, id)
                todo == call'.arg.data.todo
            IN IF op = "addTodo" \/ todo \in Ids(TodosIn(live[i]))
               THEN /\ Ids(live') = Ids(live)
                    /\ TodoChanged(op, todo, TodosIn(live[i]), TodosIn(live'[i]))
                    /\ TodosIn(live'[i]) # TodosIn(live[i])
                    /\ call'.gmode = "ok" =>
                            OneMoreUpdate(id, [data |-> TypeDataOf(live'[i])])
               ELSE /\ live' = live
                    /\ micro' = micro /\ macro' = macro
                    /\ local' = local /\ sync' = sync

\* a step in which saveTodos resumes after its Storage.updateContainer, in a
\* run without a failure of the stores, for an instance that is live and has
\* no later saveTodos on its way
SaveCompletes ==
    /\ micro # <<>> /\ micro' = Tail(micro)
    /\ Head(micro).caller = "saveTodos" /\ Head(micro).kind = "done"
    /\ hist.faults = 0
    /\ Head(micro).arg.id \in LiveIds
    /\ \A j \in 1..Len(InFlight(micro', macro')) :
            \/ InFlight(micro', macro')[j].caller # "saveTodos"
            \/ InFlight(micro', macro')[j].arg.id # Head(micro).arg.id

\* the durable store holds the to-do list of the live instance with this id
TodosStored(id) ==
    LET list == StoredList(local')
    IN /\ FindIndex(list, id) # 0
       /\ TodosOf(list[FindIndex(list, id)]) = TodosIn(live'[FindIndex(live', id)])

\* C39: every to-do add, toggle or remove that changes a countdown's list
\* issues exactly one Storage.updateContainer for that container, and once it
\* completes the stored data.todos equals the in-memory list; toggle or remove
\* of an unknown to-do id changes nothing and issues no write, and toggling
\* the same to-do twice restores its completed flag.
C39_TodosPersisted ==
    [][/\ TodoWritesOnce
       /\ SaveCompletes => TodosStored(Head(micro).arg.id)]_vars


\* the handlers of an instance that change it and write the change to the store
InstanceChanges == {"adjustHeight", "addTodo", "toggleTodo", "removeTodo"}

\* two events have been handled, and the first of them changed the instance
\* with this id: the instance was not as loadContainers made it when the
\* second was handled
FirstChanged(id) ==
    /\ hist.calls = 2
    /\ \E i \in 1..Len(call.list) :
        /\ call.list[i].id = id
        /\ call.list[i].data # InitCountdownData(LiveList[i])

\* the list holds the record of the instance with the height and the to-dos
\* that the instance has
Reflects(list, c) ==
    /\ FindIndex(list, c.id) # 0
    /\ OrNum(list[FindIndex(list, c.id)], "height", 2) = HeightOf(c)
    /\ TodosOf(list[FindIndex(list, c.id)]) = TodosIn(c)

\* the second event changed an instance while a Storage call for the change
\* that the first had made to another instance was on its way; no store has
\* failed, and every call has completed
TwoChangesMet ==
    /\ loaded /\ Settled /\ hist.faults = 0
    /\ call.op \in InstanceChanges /\ live # call.list
    /\ ~call.quiet
    /\ \E id \in Ids(call.list) \ {call.arg.id} : FirstChanged(id)

\* C33: when two read-modify-write operations of the store for different
\* container ids are in flight at the same time, the stored list reflects
\* both changes once both have completed.
C33_BothChangesStored ==
    TwoChangesMet => \A i \in 1..Len(live) : Reflects(StoredList(local), live[i])

\* the second event was deleteContainer(id) for a live id, handled while a
\* Storage call for the change that the first had made to that instance was
\* on its way; no store has failed, and every call has completed
DeleteMetChange ==
    /\ loaded /\ Settled /\ hist.faults = 0
    /\ call.op = "deleteContainer"
    /\ call.arg.id \in Ids(call.list)
    /\ ~call.quiet
    /\ FirstChanged(call.arg.id)

----------------------------------------------------------------------------
(* Further properties of the stored list and of the migration (SpecLife) *)

\* the lists a and b hold the same records, each as many times in the one as
\* in the other
SameRecords(a, b) ==
    /\ Len(a) = Len(b)
    /\ \A i \in 1..Len(a) :
            Cardinality({j \in 1..Len(b) : b[j] = a[i]})
                = Cardinality({j \in 1..Len(a) : a[j] = a[i]})

\* C35: for every orderedIds, one that leaves out ids of stored records or
\* names an id twice included, a completed reorderContainers leaves the store
\* holding the records it held, each exactly once; only their order may differ.
C35_ReorderKeepsRecords ==
    ReorderDone =>
        /\ SameRecords(call.got, StoredList(local))
        /\ UniqueIds(call.got) => UniqueIds(StoredList(local))


----------------------------------------------------------------------------
(* Further properties of the page (SpecPage) *)

\* the last event was a saveAndApply whose Storage.setSettings resolved
SettingsWritten == call.op = "saveAndApply" /\ call.status = "ok"

\* what Storage.getSettings() gives at the next startup, when the synced
\* store answers
NextGetSettings == GetSettings(settingsStore, "ok")

\* C36: the settings written by Storage.setSettings are the settings that
\* Storage.getSettings returns at the next startup; and when the synced store
\* is available but holds no settings record, getSettings returns the record
\* that the durable local store holds.
C36_SettingsReadBack ==
    /\ SettingsWritten =>
            /\ NextGetSettings.found
            /\ NextGetSettings.val = DropUndef(current)
    /\ (chrome /\ settingsStore.sync.kind # "object" /\ settingsStore.local.kind = "object") =>
            /\ NextGetSettings.found
            /\ NextGetSettings.val = settingsStore.local.val


----------------------------------------------------------------------------
(* SpecMigrate: the mapping of a prior-schema timer array, in either build  *)

MaxTimers == 2     \* timers in the array that is migrated

\* the timers that the prior build stored: with and without a title, a
\* description and a height, and two of them with one id
TimerRecords ==
    {Timer(1), Timer(2),
     [Timer(2) EXCEPT !.title = "", !.description = "notes"],
     [id |-> <<"timer", 3>>, title |-> "three", startDate |-> "2022-01-01",
      targetDate |-> "2022-02-01", createdAt |-> 1, height |-> 3],
     [id |-> <<"timer", 1>>, title |-> "again", description |-> "",
      startDate |-> "2023-01-01", targetDate |-> "2023-06-01", createdAt |-> 2]}

\* the arrays of at most MaxTimers of them
RECURSIVE TimerArrays(_)
TimerArrays(n) ==
    IF n = 0 THEN {<<>>}
    ELSE TimerArrays(n - 1)
            \cup {Append(a, t) : a \in {x \in TimerArrays(n - 1) : Len(x) = n - 1},
                                 t \in TimerRecords}

\* the array is mapped: build 1 in migrateTimersToContainers(timers), build 2
\* in the oldData.map of its migration
MigrateArray ==
    /\ call.op = "none"
    /\ call' = [call EXCEPT !.op = "migrateTimersToContainers",
                            !.containers = IF ver = 1
                                           THEN MigrateTimersToContainers(call.timers)
                                           ELSE MigrateItems(call.timers)]
    /\ UNCHANGED <<ver, chrome, storeVars, pageVars, dragVars, regVars, queueVars, hist>>

InitMigrate ==
    /\ ver \in {1, 2}
    /\ chrome = FALSE
    /\ local = EmptyStore
    /\ sync = EmptyStore
    /\ clock = 3
    /\ \E timers \in TimerArrays(MaxTimers) :
        call = [op |-> "none", timers |-> timers, containers |-> <<>>]
    /\ live = <<>>
    /\ columnCount = 2
    /\ loaded = FALSE
    /\ micro = <<>>
    /\ macro = <<>>
    /\ hist = HistInit(1, "never")
    /\ NoDrag
    /\ NoPage

NextMigrate == MigrateArray

SpecMigrate == InitMigrate /\ [][NextMigrate]_vars

----------------------------------------------------------------------------
(* Properties of the mapping of timers (SpecMigrate) *)

\* the field k of the timer, where the timer has it, is the field k of new
Keeps(timer, new, k) == Has(timer, k) => (Has(new, k) /\ new[k] = timer[k])

\* the start and target dates of the container: under `data` in build 1
DatesOf(c) ==
    IF ver = 1 THEN c.data ELSE [startDate |-> GetStr(c, "startDate"),
                                 targetDate |-> GetStr(c, "targetDate")]

\* the container is what the claim says becomes of the timer
MigratedFrom(timer, c) ==
    /\ c.id = <<"container", timer.id[2]>>
    /\ c.type = "countdown"
    /\ Keeps(timer, c, "title")
    /\ Keeps(timer, c, "description")
    /\ Keeps(timer, c, "createdAt")
    /\ DatesOf(c).startDate = timer.startDate
    /\ DatesOf(c).targetDate = timer.targetDate

\* C37: migrating a prior-schema timer array yields a container list with
\* as many records in the same order; each keeps its title, description,
\* createdAt, start date and target date (the dates under `data` in the
\* nested schema), has type countdown and has the id of the timer with the
\* prefix timer_ replaced by container_; distinct old ids give distinct new ids.
C37_TimersMigrated ==
    call.op = "migrateTimersToContainers" =>
        /\ Len(call.containers) = Len(call.timers)
        /\ \A i \in 1..Len(call.timers) : MigratedFrom(call.timers[i], call.containers[i])
        /\ UniqueIds(call.timers) => UniqueIds(call.containers)

\* two timers with different ids were migrated in build 1, the second of
\* them with an empty title and a description
C37_Witness ==
    /\ call.op = "migrateTimersToContainers" /\ ver = 1
    /\ Len(call.timers) = 2 /\ UniqueIds(call.timers)
    /\ call.timers[1].id = <<"timer", 1>>
    /\ call.timers[2].description = "notes"
    /\ call.containers[2].data.startDate = call.timers[2].startDate


\* a step of the loaded page in which tick pushes the time to the display
\* and to the instances
TickPushes == loaded /\ loaded' /\ shown' # shown

\* within one second of the wall clock tick pushes at most once
OncePerSecond == [][TickPushes => shown'.second # shown.second]_vars

\* C40: under any sequence of start() and stop() calls there is a single
\* periodic tick: at most one tick callback is pending at any time, so that
\* within one observed second of the wall clock each live container receives
\* at most one tick update.
C40_SingleTick ==
    /\ [](frames <= 1)
    /\ OncePerSecond

============================================================================
